---- MODULE Spec2Model ----
(***************************************************************************)
(* Model of the easemail triage core: the preference store and the        *)
(* learning rule (email_triage_system.py learn_from_decision), the        *)
(* classifier (classify_email_ai / classify_email_rules), the batch       *)
(* pipeline (process_batch, _handle_preprocessed_batch) and the smart     *)
(* batching session with its background worker (gmail_oauth_client.py).   *)
(*                                                                         *)
(* Confidences are kept in hundredths (0.6 is 60, 0.85 is 85): every      *)
(* confidence the code computes is a multiple of 0.1 and every threshold  *)
(* it compares against (0.7, 0.85, 0.95) is decided the same way by the   *)
(* IEEE doubles as by the exact decimals.  Strings are TLA+ strings, and  *)
(* lower(), split() and the substring test are computed on them.          *)
(***************************************************************************)
EXTENDS Integers, Sequences, FiniteSets, Bags, TLC

VARIABLES
    db,             \* preferences.db: [preferences, decisions]
    ai_available,   \* HAS_OPENAI and config['openai_api_key']
    probe,          \* last call of the classifier made by ClassifyStep
    reinforced,     \* history: how often each key was reinforced (SpecStore)
    lastReinforce,  \* history: the key and the store before the last reinforce
    opt_out_data,   \* OptOutManager.opt_out_data (opt_out_requests.json)
    clock,          \* datetime.now(), in ticks
    session_stats,  \* EmailTriageSystem.session_stats
    processed_batches,          \* the ready-list of pre-classified chunks
    stop_background_processing, \* the stop flag
    fg,             \* the foreground: _run_smart_triage_session and the batch handlers
    workers,        \* every background thread started so far, in order
    mailbox,        \* the labels of each message of the mail account
    tts,            \* TTSManager: the interrupt flag, the playback thread, the sends
    announcer,      \* the staged_speech thread of the item under review
    confirmed       \* history: the decisions confirmed so far, in order

coreVars == <<db, ai_available, probe, reinforced, lastReinforce, opt_out_data, clock>>
optOutVars == <<opt_out_data, clock>>
sessionVars == <<session_stats, processed_batches, stop_background_processing,
                 fg, workers, mailbox, confirmed, tts, announcer>>
notifierVars == <<tts, announcer>>
vars == <<db, ai_available, probe, reinforced, lastReinforce, opt_out_data, clock,
          session_stats,
          processed_batches, stop_background_processing, fg, workers, mailbox,
          confirmed, tts, announcer>>

----------------------------------------------------------------------------
(* Program constants, in hundredths where they are confidences.            *)

InitialConfidence == 60
ConfidenceStep == 10
LearnedThreshold == 70
ImportantConfidence == 80
MarketingBase == 70
MarketingStep == 10
MarketingMinScore == 2
UncertainConfidence == 50
auto_decide_threshold == 85
UserConfidence == 100
MinWordLen == 3
MaxLearnWords == 3
RepeatMinRequests == 2
RepeatMinDays == 7

(* Bounds of the model.  The batch sizes stand for fetch_batch_size (20)   *)
(* and batch_size (5) of the configuration.                                *)
MaxReinforce == 6
MaxLearn == 3
FetchBatchSize == 3
ProcessBatchSize == 2
InboxSize == 3
RefetchInboxSize == 6
TicksPerDay == 2

----------------------------------------------------------------------------
(* Strings.                                                                *)

Upper == "ABCDEFGHIJKLMNOPQRSTUVWXYZ"
LowerLetters == "abcdefghijklmnopqrstuvwxyz"

\* str.lower() on one character
LowerChar(c) ==
    IF \E i \in 1..Len(Upper) : SubSeq(Upper, i, i) = c
    THEN LET i == CHOOSE j \in 1..Len(Upper) : SubSeq(Upper, j, j) = c
         IN  SubSeq(LowerLetters, i, i)
    ELSE c

RECURSIVE Lower(_)
\* str.lower()
Lower(s) ==
    IF s = "" THEN ""
    ELSE LowerChar(SubSeq(s, 1, 1)) \o Lower(SubSeq(s, 2, Len(s)))

\* the Python test `kw in text` on strings
Contains(text, kw) ==
    \E i \in 1..(Len(text) - Len(kw) + 1) : SubSeq(text, i, i + Len(kw) - 1) = kw

RECURSIVE SplitFrom(_, _, _)
\* str.split(): the maximal runs of non-blank characters, in order
SplitFrom(s, i, word) ==
    IF i > Len(s)
    THEN IF word = "" THEN <<>> ELSE <<word>>
    ELSE IF SubSeq(s, i, i) = " "
         THEN (IF word = "" THEN <<>> ELSE <<word>>) \o SplitFrom(s, i + 1, "")
         ELSE SplitFrom(s, i + 1, word \o SubSeq(s, i, i))

Split(s) == SplitFrom(s, 1, "")

RECURSIVE LastAt(_, _)
\* the index of the last "@" of s at or before i, 0 if there is none
LastAt(s, i) ==
    IF i = 0 THEN 0
    ELSE IF SubSeq(s, i, i) = "@" THEN i ELSE LastAt(s, i - 1)

\* EmailItem.__post_init__: sender.split('@')[-1] when '@' is in the sender
sender_domain(sender) ==
    IF LastAt(sender, Len(sender)) = 0 THEN ""
    ELSE SubSeq(sender, LastAt(sender, Len(sender)) + 1, Len(sender))

----------------------------------------------------------------------------
(* Configuration (load_config defaults) and the items.                     *)

marketing_keywords ==
    <<"unsubscribe", "marketing", "newsletter", "promotion",
      "sale", "offer", "deal", "discount", "limited time">>

important_keywords ==
    <<"urgent", "important", "action required", "deadline",
      "invoice", "payment", "security", "verification">>

EmailItem(id, sender, subject, snippet, unsub) ==
    [id |-> id, sender |-> sender, subject |-> subject, snippet |-> snippet,
     has_unsubscribe |-> unsub, sender_domain |-> sender_domain(sender)]

\* The items the mail collaborator can deliver.
Mail ==
    <<EmailItem("m1", "a@spam.com", "50% OFF SALE", "", TRUE),
      EmailItem("m2", "b@spam.com", "Newsletter discount deal", "", TRUE),
      EmailItem("m3", "boss@corp.com", "URGENT: action required", "", FALSE),
      EmailItem("m4", "bob@corp.com", "", "", FALSE),
      EmailItem("m5", "a@spam.com", "Unsubscribe newsletter sale offer",
                "limited time deal", TRUE),
      EmailItem("m6", "shop@corp.com", "Wholesale ideal", "", FALSE),
      EmailItem("m7", "b@spam.com", "Invoice: discount sale", "", TRUE),
      EmailItem("m8", "bob@corp.com", "Take action", "required today", FALSE),
      EmailItem("m9", "mailer-daemon", "Lunch plan SALE", "see you", FALSE),
      EmailItem("m10", "deals@shop.com", "Sale sale SALE", "", FALSE)>>

Emails == {Mail[i] : i \in 1..Len(Mail)}

TriageActions == {"trash", "revisit", "action_needed"}
OperationalActions == {"opt_out", "spam", "bulk_archive"}
AllActions == TriageActions \cup OperationalActions

\* the actions in the order of the UNIQUE index (ascending text)
ActionOrder ==
    <<"action_needed", "bulk_archive", "opt_out", "revisit", "spam", "trash">>

NoRule == ""

TriageDecision(email_id, action, confidence, reasoning, suggested_rule) ==
    [email_id |-> email_id, action |-> action, confidence |-> confidence,
     reasoning |-> reasoning, suggested_rule |-> suggested_rule]

----------------------------------------------------------------------------
(* The preference store (table preferences, UNIQUE(pattern_type,          *)
(* pattern_value, action)) is a function from the key to the row; the     *)
(* decision log (table decisions) is a bag of rows.                        *)

EmptyDb == [preferences |-> <<>>, decisions |-> EmptyBag]

\* opt_out_data without any domain (the sender_email fields of the file,
\* which nothing reads, are left out of the entries)
NoOptOuts == <<>>

Key(pattern_type, pattern_value, action) == <<pattern_type, pattern_value, action>>

\* reinforce without the COALESCE look-ups: the row is replaced by a fresh one
reinforce_fresh(prefs, k) ==
    (k :> [confidence |-> InitialConfidence, usage_count |-> 1]) @@ prefs

\* reinforce on a table with UNIQUE(pattern_type, pattern_value): the REPLACE
\* deletes the rows of the same pattern that have another action
reinforce_unique_pattern(prefs, k) ==
    LET kept == {j \in DOMAIN prefs : j = k \/ j[1] # k[1] \/ j[2] # k[2]}
        row == IF k \in DOMAIN prefs
               THEN [confidence |-> prefs[k].confidence + ConfidenceStep,
                     usage_count |-> prefs[k].usage_count + 1]
               ELSE [confidence |-> InitialConfidence, usage_count |-> 1]
    IN  [j \in kept \cup {k} |-> IF j = k THEN row ELSE prefs[j]]

\* INSERT OR REPLACE ... COALESCE((SELECT confidence ...) + 0.1, 0.6),
\*                       COALESCE((SELECT usage_count ...) + 1, 1)
reinforce(prefs, k) ==
    IF k \in DOMAIN prefs
    THEN [prefs EXCEPT ![k] = [confidence |-> @.confidence + ConfidenceStep,
                               usage_count |-> @.usage_count + 1]]
    ELSE (k :> [confidence |-> InitialConfidence, usage_count |-> 1]) @@ prefs

\* [word.lower() for word in subject.split() if len(word) > 3][:3]
subject_words(email) ==
    LET long(w) == Len(w) > MinWordLen
        words == SelectSeq(Split(email.subject), long)
        n == IF Len(words) < MaxLearnWords THEN Len(words) ELSE MaxLearnWords
    IN  [i \in 1..n |-> Lower(words[i])]

patterns_to_learn(email) ==
    <<<<"sender", email.sender>>, <<"domain", email.sender_domain>>>>
    \o [i \in 1..Len(subject_words(email)) |->
            <<"subject_keyword", subject_words(email)[i]>>]

\* patterns_to_learn of every item, computed once
PatternsOf == [id \in {Mail[i].id : i \in 1..Len(Mail)} |->
                patterns_to_learn(CHOOSE e \in Emails : e.id = id)]

RECURSIVE reinforce_all(_, _, _)
\* the loop over patterns_to_learn
reinforce_all(prefs, patterns, action) ==
    IF patterns = <<>> THEN prefs
    ELSE reinforce_all(reinforce(prefs, Key(Head(patterns)[1], Head(patterns)[2], action)),
                       Tail(patterns), action)

decision_row(email, decision) ==
    [email_id |-> email.id, sender |-> email.sender, subject |-> email.subject,
     action |-> decision.action, reasoning |-> decision.reasoning,
     was_auto_decided |-> decision.confidence > auto_decide_threshold]

learn_from_decision(d, email, decision, user_confirmed) ==
    IF ~user_confirmed THEN d
    ELSE [preferences |-> reinforce_all(d.preferences, PatternsOf[email.id],
                                        decision.action),
          decisions |-> d.decisions (+) SetToBag({decision_row(email, decision)})]

UserPreference(prefs, k) ==
    [pattern_type |-> k[1], pattern_value |-> k[2], action |-> k[3],
     confidence |-> prefs[k].confidence, usage_count |-> prefs[k].usage_count]

\* SELECT * FROM preferences WHERE pattern_type=? AND pattern_value=?
\* (the rows come in the order of the UNIQUE index)
select_rows(prefs, pattern_type, pattern_value) ==
    LET present(a) == Key(pattern_type, pattern_value, a) \in DOMAIN prefs
        acts == SelectSeq(ActionOrder, present)
    IN  [i \in 1..Len(acts) |->
            UserPreference(prefs, Key(pattern_type, pattern_value, acts[i]))]

RECURSIVE keyword_rows(_, _)
keyword_rows(prefs, words) ==
    IF words = <<>> THEN <<>>
    ELSE select_rows(prefs, "subject_keyword", Head(words))
         \o keyword_rows(prefs, Tail(words))

\* email.subject.lower().split() of every item, computed once
MatchWordsOf == [id \in {Mail[i].id : i \in 1..Len(Mail)} |->
                  Split(Lower((CHOOSE e \in Emails : e.id = id).subject))]

get_matching_preferences(d, email) ==
    select_rows(d.preferences, "sender", email.sender)
    \o select_rows(d.preferences, "domain", email.sender_domain)
    \o keyword_rows(d.preferences, MatchWordsOf[email.id])

\* max(preferences, key=lambda p: p.confidence): the first of the largest
best_pref(preferences) ==
    LET i == CHOOSE j \in 1..Len(preferences) :
                /\ \A l \in 1..Len(preferences) :
                        preferences[l].confidence <= preferences[j].confidence
                /\ \A l \in 1..(j - 1) :
                        preferences[l].confidence < preferences[j].confidence
    IN  preferences[i]

combined_text(email) == Lower(email.subject) \o " " \o Lower(email.snippet)

has_important(email) ==
    \E i \in 1..Len(important_keywords) :
        Contains(combined_text(email), important_keywords[i])

marketing_score(email) ==
    Cardinality({i \in 1..Len(marketing_keywords) :
                    Contains(combined_text(email), marketing_keywords[i])})

\* the heuristic with the marketing test made before the important-keyword test
heuristic_marketing_first(email) ==
    IF email.has_unsubscribe \/ marketing_score(email) >= MarketingMinScore
    THEN TriageDecision(email.id, "trash",
                        MarketingBase + marketing_score(email) * MarketingStep,
                        "Appears to be marketing/newsletter content", NoRule)
    ELSE IF has_important(email)
    THEN TriageDecision(email.id, "action_needed", ImportantConfidence,
                        "Contains important keywords", NoRule)
    ELSE TriageDecision(email.id, "revisit", UncertainConfidence,
                        "Uncertain classification, needs human review", NoRule)

\* the heuristic part of classify_email_rules
heuristic(email) ==
    IF has_important(email)
    THEN TriageDecision(email.id, "action_needed", ImportantConfidence,
                        "Contains important keywords", NoRule)
    ELSE IF email.has_unsubscribe \/ marketing_score(email) >= MarketingMinScore
    THEN TriageDecision(email.id, "trash",
                        MarketingBase + marketing_score(email) * MarketingStep,
                        "Appears to be marketing/newsletter content", NoRule)
    ELSE TriageDecision(email.id, "revisit", UncertainConfidence,
                        "Uncertain classification, needs human review", NoRule)

\* the heuristic decision of every item, computed once
HeuristicOf == [id \in {Mail[i].id : i \in 1..Len(Mail)} |->
                 heuristic(CHOOSE e \in Emails : e.id = id)]

\* classify_email_rules with a preference of exactly 0.7 already followed
classify_email_rules_at_threshold(d, email) ==
    LET preferences == get_matching_preferences(d, email)
    IN  IF preferences # <<>> /\ best_pref(preferences).confidence >= LearnedThreshold
        THEN TriageDecision(email.id, best_pref(preferences).action,
                            best_pref(preferences).confidence,
                            "Learned preference: " \o best_pref(preferences).pattern_type
                                \o "=" \o best_pref(preferences).pattern_value,
                            NoRule)
        ELSE HeuristicOf[email.id]

classify_email_rules(d, email) ==
    LET preferences == get_matching_preferences(d, email)
    IN  IF preferences # <<>> /\ best_pref(preferences).confidence > LearnedThreshold
        THEN TriageDecision(email.id, best_pref(preferences).action,
                            best_pref(preferences).confidence,
                            "Learned preference: " \o best_pref(preferences).pattern_type
                                \o "=" \o best_pref(preferences).pattern_value,
                            NoRule)
        ELSE HeuristicOf[email.id]

(* What one call of the external model can come to: the call raises       *)
(* (unreachable, timeout), the reply is not JSON, or it is a JSON object, *)
(* with or without the fields the code reads.                              *)
AiReplies ==
    {[kind |-> "raises", result |-> [x |-> 0]],
     [kind |-> "not_json", result |-> [x |-> 0]],
     [kind |-> "json", result |-> [action |-> "trash", confidence |-> 85,
                                   reasoning |-> "promotional mail",
                                   suggested_rule |-> "trash this sender"]],
     [kind |-> "json", result |-> [action |-> "revisit", confidence |-> 40,
                                   reasoning |-> "unclear"]],
     [kind |-> "json", result |-> [confidence |-> 90, reasoning |-> "no action"]],
     [kind |-> "json", result |-> [action |-> "trash", reasoning |-> "no confidence"]],
     [kind |-> "json", result |-> [action |-> "action_needed", confidence |-> 90]]}

\* classify_email_ai reading the reply with defaults (result.get) instead of
\* failing on a missing field
classify_email_ai_lenient(d, email, available, reply) ==
    IF ~available THEN classify_email_rules(d, email)
    ELSE IF reply.kind = "json" /\ "action" \in DOMAIN reply.result
    THEN TriageDecision(email.id, reply.result.action,
                        IF "confidence" \in DOMAIN reply.result
                        THEN reply.result.confidence ELSE UncertainConfidence,
                        IF "reasoning" \in DOMAIN reply.result
                        THEN reply.result.reasoning ELSE "",
                        IF "suggested_rule" \in DOMAIN reply.result
                        THEN reply.result.suggested_rule ELSE NoRule)
    ELSE classify_email_rules(d, email)

classify_email_ai(d, email, available, reply) ==
    IF ~available THEN classify_email_rules(d, email)
    ELSE IF /\ reply.kind = "json"
            /\ {"action", "confidence", "reasoning"} \subseteq DOMAIN reply.result
    THEN TriageDecision(email.id, reply.result.action, reply.result.confidence,
                        reply.result.reasoning,
                        IF "suggested_rule" \in DOMAIN reply.result
                        THEN reply.result.suggested_rule ELSE NoRule)
    ELSE classify_email_rules(d, email)

----------------------------------------------------------------------------
(* SpecStore: the reinforcement rule applied to keys of the store.         *)

StoreKeys ==
    {Key("sender", "a@spam.com", "trash"), Key("sender", "a@spam.com", "revisit"),
     Key("domain", "spam.com", "trash")}

NoProbe == [called |-> FALSE]
NoReinforce == [done |-> FALSE]

InitCore ==
    /\ db = EmptyDb
    /\ probe = NoProbe
    /\ reinforced = [k \in StoreKeys |-> 0]
    /\ lastReinforce = NoReinforce

\* no opt_out_requests.json yet
InitOptOut ==
    /\ opt_out_data = NoOptOuts
    /\ clock = 0

IdleForeground == [pc |-> "idle"]

\* TTSManager.__init__: the flag is clear, nothing plays, nothing was sent
IdleTts ==
    [interrupt_flag |-> FALSE, playback |-> "none", speaking |-> 0,
     sent |-> <<0, 0, 0>>]

IdleAnnouncer == [pc |-> "idle", stage |-> 0]

InitSessionIdle ==
    /\ session_stats = [processed |-> 0, trash |-> 0, revisit |-> 0,
                        action_needed |-> 0, auto_decided |-> 0]
    /\ processed_batches = <<>>
    /\ stop_background_processing = FALSE
    /\ fg = IdleForeground
    /\ workers = <<>>
    /\ mailbox = <<>>
    /\ tts = IdleTts
    /\ announcer = IdleAnnouncer
    /\ confirmed = <<>>

StoreInit == InitCore /\ InitOptOut /\ InitSessionIdle /\ ai_available = FALSE

ReinforceStep(k) ==
    /\ reinforced[k] < MaxReinforce
    /\ db' = [db EXCEPT !.preferences = reinforce(db.preferences, k)]
    /\ reinforced' = [reinforced EXCEPT ![k] = @ + 1]
    /\ lastReinforce' = [done |-> TRUE, key |-> k, before |-> db.preferences]
    /\ UNCHANGED <<ai_available, probe, optOutVars>>
    /\ UNCHANGED sessionVars

StoreNext == \E k \in StoreKeys : ReinforceStep(k)

SpecStore == StoreInit /\ [][StoreNext]_vars

----------------------------------------------------------------------------
(* SpecClassify: stores built by confirmed decisions, and the classifier   *)
(* applied to every item under every outcome of the external model.        *)

LearnEmails == {Mail[1], Mail[3], Mail[9]}
LearnActions == TriageActions \cup {"opt_out"}

ClassifyInit == InitCore /\ InitOptOut /\ InitSessionIdle /\ ai_available \in BOOLEAN

LearnStep(email, action) ==
    /\ BagCardinality(db.decisions) < MaxLearn
    /\ db' = learn_from_decision(db, email,
                TriageDecision(email.id, action, UserConfidence, "User decision", NoRule),
                TRUE)
    /\ probe' = NoProbe
    /\ UNCHANGED <<ai_available, reinforced, lastReinforce, optOutVars>>
    /\ UNCHANGED sessionVars

ClassifyStep(email, reply) ==
    /\ probe = NoProbe
    /\ probe' = [called |-> TRUE, email |-> email, reply |-> reply,
                 decision |-> classify_email_ai(db, email, ai_available, reply)]
    /\ UNCHANGED <<db, ai_available, reinforced, lastReinforce, optOutVars>>
    /\ UNCHANGED sessionVars

ClassifyNext ==
    \/ \E e \in LearnEmails, a \in LearnActions : LearnStep(e, a)
    \/ \E e \in Emails, r \in AiReplies : ClassifyStep(e, r)

SpecClassify == ClassifyInit /\ [][ClassifyNext]_vars

----------------------------------------------------------------------------
(* Spec: one smart-batching session (_run_smart_triage_session) on an      *)
(* inbox, with the background workers it starts.  An item is named by its  *)
(* index in Mail; a pair (email, decision) is a record.                    *)

\* the inbox, in the order the mail collaborator lists it
Stream == <<2, 1, 5, 7, 6, 3, 9, 8, 4>>
Inbox == SubSeq(Stream, 1, IF InboxSize < Len(Stream) THEN InboxSize ELSE Len(Stream))

\* what the external model can answer during a session
SessionReplies ==
    {r \in AiReplies : r.kind = "not_json" \/ "suggested_rule" \in DOMAIN r.result}

\* list_messages("in:inbox -label:TRIAGE_REVISIT -label:TRIAGE_ACTION_NEEDED
\* -label:TRIAGE_OPT_OUT", max_count), in the order of the inbox
fetch_inbox_emails(mb, max_count) ==
    LET t(e) == /\ e \in DOMAIN mb
                /\ "INBOX" \in mb[e]
                /\ mb[e] \cap {"TRIAGE_REVISIT", "TRIAGE_ACTION_NEEDED",
                               "TRIAGE_OPT_OUT"} = {}
        found == SelectSeq(Stream, t)
    IN  SubSeq(found, 1, IF max_count < Len(found) THEN max_count ELSE Len(found))

\* the labels of a message after a decision is applied to it: the three
\* dispositions, _handle_opt_out_action, _handle_spam_action and, for the
\* message the decision is about, _handle_bulk_archive_action
apply_action(labels, action) ==
    CASE action = "trash" -> (labels \ {"INBOX"}) \cup {"TRASH"}
      [] action = "revisit" -> (labels \ {"INBOX"}) \cup {"TRIAGE_REVISIT"}
      [] action = "action_needed" -> labels \cup {"TRIAGE_ACTION_NEEDED"}
      [] action = "opt_out" -> (labels \ {"INBOX"}) \cup {"TRIAGE_OPT_OUT"}
      [] action = "spam" -> (labels \ {"INBOX"}) \cup {"SPAM"}
      [] action = "bulk_archive" -> labels \ {"INBOX", "UNREAD"}
      [] OTHER -> labels

RECURSIVE apply_triage_decisions(_, _)
\* for email_item, decision in decisions: apply decision.action
apply_triage_decisions(mb, decisions) ==
    IF decisions = <<>> THEN mb
    ELSE apply_triage_decisions(
            [mb EXCEPT ![Head(decisions).email] =
                            apply_action(@, Head(decisions).decision.action)],
            Tail(decisions))

RECURSIVE apply_triage_decisions_abort(_, _, _)
\* apply_triage_decisions without the try/except around each item: the
\* first failing Gmail call ends the loop
apply_triage_decisions_abort(mb, decisions, fails) ==
    IF decisions = <<>> \/ Head(fails) THEN mb
    ELSE apply_triage_decisions_abort(
            [mb EXCEPT ![Head(decisions).email] =
                            apply_action(@, Head(decisions).decision.action)],
            Tail(decisions), Tail(fails))

RECURSIVE apply_triage_decisions_try(_, _, _)
\* apply_triage_decisions when the Gmail call of some items fails
\* (fails[i] for the i-th decision): the failure is caught and printed, the
\* message keeps its labels and the loop goes on with the next decision
apply_triage_decisions_try(mb, decisions, fails) ==
    IF decisions = <<>> THEN mb
    ELSE apply_triage_decisions_try(
            IF Head(fails) THEN mb
            ELSE [mb EXCEPT ![Head(decisions).email] =
                            apply_action(@, Head(decisions).decision.action)],
            Tail(decisions), Tail(fails))

Pair(email, decision) == [email |-> email, decision |-> decision]

Slice(seq, from, to) == SubSeq(seq, from + 1, IF to < Len(seq) THEN to ELSE Len(seq))

\* decision.confidence >= auto_decide_threshold, with > in place of >=
is_auto_strict(decision) == decision.confidence > auto_decide_threshold

\* decision.confidence >= config.get('auto_decide_threshold', 0.85)
is_auto(decision) == decision.confidence >= auto_decide_threshold

auto_of(pairs) == LET t(p) == is_auto(p.decision) IN SelectSeq(pairs, t)
manual_of(pairs) == LET t(p) == ~is_auto(p.decision) IN SelectSeq(pairs, t)

RECURSIVE apply_auto(_, _, _, _, _)
\* for email, decision in auto_decisions: learn_from_decision(...);
\* session_stats[decision.action] += 1 (a KeyError for an action that has no
\* counter); session_stats['auto_decided'] += 1 (process_batch only)
apply_auto(d, stats, autos, user_confirmed, count_auto) ==
    IF autos = <<>> THEN [db |-> d, stats |-> stats, raised |-> FALSE]
    ELSE LET p == Head(autos)
             d1 == learn_from_decision(d, Mail[p.email], p.decision, user_confirmed)
         IN  IF p.decision.action \notin TriageActions
             THEN [db |-> d1, stats |-> stats, raised |-> TRUE]
             ELSE apply_auto(d1,
                     [stats EXCEPT ![p.decision.action] = @ + 1,
                                   !.auto_decided = IF count_auto THEN @ + 1 ELSE @],
                     Tail(autos), user_confirmed, count_auto)

\* the store after a batch-level answer that also learns a rejected batch
batch_answer_always(d, stats, autos, yes, user_confirmed, count_auto) ==
    apply_auto(d, stats, autos, user_confirmed, count_auto)

\* the store and the counters after the batch-level answer
batch_answer(d, stats, autos, yes, user_confirmed, count_auto) ==
    IF yes THEN apply_auto(d, stats, autos, user_confirmed, count_auto)
    ELSE [db |-> d, stats |-> stats, raised |-> FALSE]

\* manual_decisions.extend(auto_decisions), dropping the rejected decisions
rejected_to_manual_dropped(manual, autos) == manual

\* manual_decisions.extend(auto_decisions)
rejected_to_manual(manual, autos) == manual \o autos

\* _handle_opt_out, with the opt-out collaborator's answer as a boolean
\* OptOutManager._extract_domain: split('@')[-1].lower(), or the whole
\* address in lower case when it has no '@'
extract_domain(email_address) ==
    IF LastAt(email_address, Len(email_address)) = 0 THEN Lower(email_address)
    ELSE Lower(SubSeq(email_address, LastAt(email_address, Len(email_address)) + 1,
                      Len(email_address)))

\* _extract_domain of the sender of every item, computed once
DomainOf == [id \in {Mail[i].id : i \in 1..Len(Mail)} |->
                extract_domain((CHOOSE e \in Emails : e.id = id).sender)]

\* (latest_request - first_request).days: whole days, rounded down
days_between(first_request, latest_request) ==
    (latest_request - first_request) \div TicksPerDay

\* record_opt_out_request with "more than 7 days" in place of "at least 7"
record_opt_out_request_strict(data, email, current_time) ==
    LET domain == DomainOf[email.id]
        old == IF domain \in DOMAIN data THEN data[domain]
               ELSE [requests |-> <<>>, is_repeat_offender |-> FALSE]
        requests == Append(old.requests, current_time)
        offender == \/ old.is_repeat_offender
                    \/ /\ Len(requests) >= RepeatMinRequests
                       /\ days_between(requests[1], current_time) > RepeatMinDays
        entry == [requests |-> requests, is_repeat_offender |-> offender]
    IN  [data |-> [d \in DOMAIN data \cup {domain} |->
                        IF d = domain THEN entry ELSE data[d]],
         info |-> [domain |-> domain, request_count |-> Len(requests),
                   is_repeat_offender |-> offender,
                   first_request_date |-> requests[1]]]

\* OptOutManager.record_opt_out_request: the request is appended to the
\* domain's list; with at least 2 requests, the last at least 7 days after
\* the first, the domain is flagged a repeat offender (and stays flagged)
record_opt_out_request(data, email, current_time) ==
    LET domain == DomainOf[email.id]
        old == IF domain \in DOMAIN data THEN data[domain]
               ELSE [requests |-> <<>>, is_repeat_offender |-> FALSE]
        requests == Append(old.requests, current_time)
        offender == \/ old.is_repeat_offender
                    \/ /\ Len(requests) >= RepeatMinRequests
                       /\ days_between(requests[1], current_time) >= RepeatMinDays
        entry == [requests |-> requests, is_repeat_offender |-> offender]
    IN  [data |-> [d \in DOMAIN data \cup {domain} |->
                        IF d = domain THEN entry ELSE data[d]],
         info |-> [domain |-> domain, request_count |-> Len(requests),
                   is_repeat_offender |-> offender,
                   first_request_date |-> requests[1]]]

handle_opt_out(email, is_repeat_offender) ==
    IF is_repeat_offender
    THEN TriageDecision(email.id, "spam", UserConfidence,
                        "Repeat offender opt-out", "opt_out_data:")
    ELSE TriageDecision(email.id, "opt_out", UserConfidence,
                        "Data erasure request generated", "opt_out_data:")

handle_bulk_archive(email) ==
    TriageDecision(email.id, "bulk_archive", UserConfidence,
                   "Bulk archive requested for sender: " \o email.sender,
                   "bulk_archive_data:")

\* what getch() can return: the keys of the menu, a key that is not in it,
\* and Ctrl+C, which the terminal in raw mode (tty.setraw) delivers as the
\* character chr(3) instead of raising KeyboardInterrupt
CtrlC == "ctrl_c"
MenuKeys == {"enter", "9", "5", "1", "space", "0", "-", "q"}
Keys == MenuKeys \cup {"x", CtrlC}

\* get_user_decision with the space key accepting the suggestion
key_outcome_space_accepts(email, suggested, key, is_repeat_offender) ==
    CASE key \in {"enter", "space"} -> [kind |-> "decision", decision |-> suggested]
      [] key = "9" -> [kind |-> "decision", decision |->
            TriageDecision(email.id, "trash", UserConfidence, "User decision", NoRule)]
      [] key = "5" -> [kind |-> "decision", decision |->
            TriageDecision(email.id, "revisit", UserConfidence, "User decision", NoRule)]
      [] key = "1" -> [kind |-> "decision", decision |->
            TriageDecision(email.id, "action_needed", UserConfidence, "User decision", NoRule)]
      [] key = "0" -> [kind |-> "decision", decision |->
            handle_opt_out(email, is_repeat_offender)]
      [] key = "-" -> [kind |-> "decision", decision |-> handle_bulk_archive(email)]
      [] key = "q" -> [kind |-> "exit"]
      [] OTHER -> [kind |-> "none"]

\* get_user_decision: what a key returns ("none": the loop prompts again)
\* get_user_decision with a key outside the menu taken as "discard"
key_outcome_other_trashes(email, suggested, key, is_repeat_offender) ==
    CASE key = "enter" -> [kind |-> "decision", decision |-> suggested]
      [] key = "5" -> [kind |-> "decision", decision |->
            TriageDecision(email.id, "revisit", UserConfidence, "User decision", NoRule)]
      [] key = "1" -> [kind |-> "decision", decision |->
            TriageDecision(email.id, "action_needed", UserConfidence, "User decision", NoRule)]
      [] key = "0" -> [kind |-> "decision", decision |->
            handle_opt_out(email, is_repeat_offender)]
      [] key = "-" -> [kind |-> "decision", decision |-> handle_bulk_archive(email)]
      [] key = "q" -> [kind |-> "exit"]
      [] key = "space" -> [kind |-> "none"]
      [] OTHER -> [kind |-> "decision", decision |->
            TriageDecision(email.id, "trash", UserConfidence, "User decision", NoRule)]

key_outcome(email, suggested, key, is_repeat_offender) ==
    CASE key = "enter" -> [kind |-> "decision", decision |-> suggested]
      [] key = "9" -> [kind |-> "decision", decision |->
            TriageDecision(email.id, "trash", UserConfidence, "User decision", NoRule)]
      [] key = "5" -> [kind |-> "decision", decision |->
            TriageDecision(email.id, "revisit", UserConfidence, "User decision", NoRule)]
      [] key = "1" -> [kind |-> "decision", decision |->
            TriageDecision(email.id, "action_needed", UserConfidence, "User decision", NoRule)]
      [] key = "0" -> [kind |-> "decision", decision |->
            handle_opt_out(email, is_repeat_offender)]
      [] key = "-" -> [kind |-> "decision", decision |-> handle_bulk_archive(email)]
      [] key = "q" -> [kind |-> "exit"]
      [] OTHER -> [kind |-> "none"]

NewWorker(emails) ==
    [emails |-> emails, current_index |-> ProcessBatchSize, pc |-> "loop",
     processed_decisions |-> <<>>, j |-> 1]

NoBatch ==
    [handler |-> "none", current_batch |-> <<>>, classified |-> <<>>,
     auto_decisions |-> <<>>, manual_decisions |-> <<>>, results |-> <<>>,
     mi |-> 1, rejected |-> <<>>]

Init ==
    /\ InitCore
    /\ InitOptOut
    /\ ai_available \in BOOLEAN
    /\ session_stats = [processed |-> 0, trash |-> 0, revisit |-> 0,
                        action_needed |-> 0, auto_decided |-> 0]
    /\ processed_batches = <<>>
    /\ stop_background_processing = FALSE
    /\ mailbox = [e \in {Inbox[i] : i \in 1..Len(Inbox)} |-> {"INBOX"}]
    /\ fg = [pc |-> "fetch", all_emails |-> <<>>,
             processed_count |-> 0, batch_number |-> 1, batch |-> NoBatch]
    /\ workers = <<>>
    /\ confirmed = <<>>
    /\ tts = IdleTts
    /\ announcer = IdleAnnouncer

\* all_emails = fetch_inbox_emails(fetch_batch_size), the reset of the
\* ready-list and of the stop flag, and the start of the worker
Fetch ==
    /\ fg.pc = "fetch"
    /\ LET all_emails == fetch_inbox_emails(mailbox, FetchBatchSize)
       IN  IF all_emails = <<>>
           THEN /\ fg' = [fg EXCEPT !.pc = "finished"]
                /\ UNCHANGED <<processed_batches, stop_background_processing, workers>>
           ELSE /\ processed_batches' = <<>>
                /\ stop_background_processing' = FALSE
                /\ workers' = IF Len(all_emails) > ProcessBatchSize
                              THEN Append(workers, NewWorker(all_emails))
                              ELSE workers
                /\ fg' = [fg EXCEPT !.pc = "batch",
                                    !.all_emails = all_emails,
                                    !.processed_count = 0,
                                    !.batch_number = 1]
    /\ UNCHANGED <<coreVars, session_stats, mailbox, confirmed, notifierVars>>

\* the entries of the ready-list for the chunk batch_number
ReadyEntries(batch_number) ==
    LET t(b) == b.batch_index = batch_number - 1 /\ b.ready
    IN  SelectSeq(processed_batches, t)

\* batch_number != 1, and batch_ready and pre_processed_decisions: the first
\* ready entry for the chunk exists and its decisions are not empty
use_preprocessed(batch_number) ==
    /\ batch_number # 1
    /\ ReadyEntries(batch_number) # <<>>
    /\ ReadyEntries(batch_number)[1].decisions # <<>>

\* the start of a chunk: the look-up in the ready-list, the classification
\* (process_batch) or the use of the published decisions
\* (_handle_preprocessed_batch), and the partition
StartBatch(replies) ==
    /\ fg.pc = "batch"
    /\ LET current_batch == Slice(fg.all_emails, fg.processed_count,
                                  fg.processed_count + ProcessBatchSize)
           ready == ReadyEntries(fg.batch_number)
           use_pre == use_preprocessed(fg.batch_number)
           classified ==
               IF use_pre THEN ready[1].decisions
               ELSE [i \in 1..Len(current_batch) |->
                        Pair(current_batch[i],
                             classify_email_ai(db, Mail[current_batch[i]],
                                               ai_available, replies[i]))]
       IN  /\ replies \in [1..Len(current_batch) -> SessionReplies]
           /\ fg' = [fg EXCEPT
                        !.pc = IF auto_of(classified) # <<>> THEN "confirm" ELSE "manual",
                        !.batch = [handler |-> IF use_pre THEN "pre" ELSE "inline",
                                   current_batch |-> current_batch,
                                   classified |-> classified,
                                   auto_decisions |-> auto_of(classified),
                                   manual_decisions |-> manual_of(classified),
                                   results |-> <<>>, mi |-> 1, rejected |-> <<>>]]
    /\ UNCHANGED <<coreVars, session_stats, processed_batches,
                   stop_background_processing, workers, mailbox, confirmed, notifierVars>>

\* an exception leaves the batch handler: _run_smart_triage_session's
\* `except Exception` sets the stop flag and joins the worker
Raised(f) == [f EXCEPT !.pc = "except_join", !.batch = NoBatch]

\* the batch-level confirmation: confirm_batch_action (y / n, anything else
\* prompts again) in process_batch, input() (anything but n is yes) in
\* _handle_preprocessed_batch
ConfirmBatch(answer) ==
    /\ fg.pc = "confirm"
    /\ LET inline == fg.batch.handler = "inline"
           yes == IF inline THEN answer = "y" ELSE answer # "n"
           no == answer = "n"
           out == batch_answer(db, session_stats, fg.batch.auto_decisions, yes,
                               inline, inline)
       IN  /\ db' = out.db
           /\ session_stats' = out.stats
           /\ confirmed' = IF yes THEN confirmed \o fg.batch.auto_decisions ELSE confirmed
           /\ IF out.raised
              THEN /\ fg' = Raised(fg)
                   /\ stop_background_processing' = TRUE
              ELSE /\ stop_background_processing' = stop_background_processing
                   /\ fg' = IF yes
                            THEN [fg EXCEPT !.pc = "manual",
                                     !.batch.results = @ \o fg.batch.auto_decisions]
                            ELSE IF no
                            THEN [fg EXCEPT !.pc = "manual",
                                     !.batch.rejected = fg.batch.auto_decisions,
                                     !.batch.manual_decisions =
                                        rejected_to_manual(@, fg.batch.auto_decisions)]
                            ELSE fg
    /\ UNCHANGED <<ai_available, probe, reinforced, lastReinforce, optOutVars,
                   processed_batches, workers, mailbox, notifierVars>>

\* one key in get_user_decision for the current item of the manual loop,
\* and the rest of the loop body when a decision is returned
ManualKey(key) ==
    /\ fg.pc = "manual"
    /\ fg.batch.mi <= Len(fg.batch.manual_decisions)
    /\ LET p == fg.batch.manual_decisions[fg.batch.mi]
           rec == record_opt_out_request(opt_out_data, Mail[p.email], clock)
           out == key_outcome(Mail[p.email], p.decision, key,
                              rec.info.is_repeat_offender)
       IN  /\ opt_out_data' = IF key = "0" THEN rec.data ELSE opt_out_data
           /\ CASE out.kind = "none" ->
                           UNCHANGED <<db, session_stats, fg, confirmed,
                                       stop_background_processing>>
                    [] out.kind = "exit" ->
                           /\ fg' = [fg EXCEPT !.pc = "exited", !.batch = NoBatch]
                           /\ UNCHANGED <<db, session_stats, confirmed,
                                          stop_background_processing>>
                    [] out.kind = "decision" ->
                           /\ db' = learn_from_decision(db, Mail[p.email], out.decision, TRUE)
                           /\ confirmed' = Append(confirmed, Pair(p.email, out.decision))
                           /\ IF out.decision.action \in TriageActions
                              THEN /\ session_stats' =
                                           [session_stats EXCEPT ![out.decision.action] = @ + 1]
                                   /\ fg' = [fg EXCEPT
                                               !.batch.results =
                                                   Append(@, Pair(p.email, out.decision)),
                                               !.batch.mi = @ + 1]
                                   /\ UNCHANGED stop_background_processing
                              ELSE /\ fg' = Raised(fg)
                                   /\ stop_background_processing' = TRUE
                                   /\ UNCHANGED session_stats
    /\ UNCHANGED <<ai_available, probe, reinforced, lastReinforce, clock,
                   processed_batches, workers, mailbox, notifierVars>>

\* the batch handler returns its results, which are applied, and the session
\* moves to the next chunk or cleans up after the last one
ReturnBatch ==
    /\ fg.pc = "manual"
    /\ fg.batch.mi > Len(fg.batch.manual_decisions)
    /\ session_stats' = IF fg.batch.handler = "inline"
                        THEN [session_stats EXCEPT !.processed = Len(fg.batch.results)]
                        ELSE session_stats
    /\ LET processed_count == fg.processed_count + Len(fg.batch.current_batch)
           more == processed_count < Len(fg.all_emails)
       IN  /\ fg' = [fg EXCEPT !.pc = IF more THEN "batch" ELSE "join",
                               !.processed_count = processed_count,
                               !.batch_number = @ + 1,
                               !.batch = NoBatch]
           /\ stop_background_processing' =
                IF more THEN stop_background_processing ELSE TRUE
    /\ mailbox' = apply_triage_decisions(mailbox, fg.batch.results)
    /\ UNCHANGED <<coreVars, processed_batches, workers, confirmed, notifierVars>>

\* KeyboardInterrupt reaches _run_smart_triage_session: while fetching, while
\* classifying, or in input() of the pre-classified confirmation (getch keeps
\* the interrupt inside its own bare except); the handler sets the stop flag
\* and joins the worker
Interrupt ==
    /\ \/ fg.pc \in {"fetch", "batch"}
       \/ fg.pc = "confirm" /\ fg.batch.handler = "pre"
    /\ fg' = Raised(fg)
    /\ stop_background_processing' = TRUE
    /\ UNCHANGED <<coreVars, session_stats, processed_batches, workers, mailbox,
                   confirmed, notifierVars>>

ThreadAlive == workers # <<>> /\ workers[Len(workers)].pc # "done"

AfterJoin(f) ==
    [f EXCEPT !.pc = IF f.pc = "join" THEN "fetch" ELSE "returned"]

\* background_thread.join(timeout=2) returns because the thread has ended
\* (or there is none alive to join)
JoinReturn ==
    /\ fg.pc \in {"join", "except_join"}
    /\ ~ThreadAlive
    /\ fg' = AfterJoin(fg)
    /\ UNCHANGED <<coreVars, session_stats, processed_batches,
                   stop_background_processing, workers, mailbox, confirmed, notifierVars>>

\* background_thread.join(timeout=2) returns because the time is up
JoinTimeout ==
    /\ fg.pc \in {"join", "except_join"}
    /\ ThreadAlive
    /\ fg' = AfterJoin(fg)
    /\ UNCHANGED <<coreVars, session_stats, processed_batches,
                   stop_background_processing, workers, mailbox, confirmed, notifierVars>>

ProcessAlive == fg.pc # "exited"

WorkerBatch(w) ==
    Slice(workers[w].emails, workers[w].current_index,
          workers[w].current_index + ProcessBatchSize)

\* while current_index < len(emails) and not self.stop_background_processing
WorkerLoop(w) ==
    /\ ProcessAlive
    /\ workers[w].pc = "loop"
    /\ workers' = [workers EXCEPT ![w] =
            IF /\ workers[w].current_index < Len(workers[w].emails)
               /\ ~stop_background_processing
            THEN [@ EXCEPT !.pc = "item", !.processed_decisions = <<>>, !.j = 1]
            ELSE [@ EXCEPT !.pc = "done", !.processed_decisions = <<>>, !.j = 1]]
    /\ UNCHANGED <<coreVars, session_stats, processed_batches,
                   stop_background_processing, fg, mailbox, confirmed, notifierVars>>

\* the worker's loop body with the decision it made also learned
WorkerItem_learns(w, reply) ==
    /\ ProcessAlive
    /\ workers[w].pc = "item"
    /\ reply \in SessionReplies
    /\ LET email == Mail[WorkerBatch(w)[workers[w].j]]
           decision == classify_email_ai(db, email, ai_available, reply)
       IN  /\ workers' = [workers EXCEPT ![w] =
                 IF stop_background_processing
                 THEN [@ EXCEPT !.pc = "publish"]
                 ELSE [@ EXCEPT
                         !.processed_decisions =
                             Append(@, Pair(WorkerBatch(w)[workers[w].j], decision)),
                         !.j = @ + 1,
                         !.pc = IF workers[w].j < Len(WorkerBatch(w))
                                THEN "item" ELSE "publish"]]
           /\ db' = IF stop_background_processing THEN db
                    ELSE learn_from_decision(db, email, decision, TRUE)
    /\ UNCHANGED <<ai_available, probe, reinforced, lastReinforce, optOutVars,
                   session_stats, processed_batches,
                   stop_background_processing, fg, mailbox, confirmed, notifierVars>>

\* for email in batch: if stop: break; classify_email_ai(email); append
WorkerItem(w, reply) ==
    /\ ProcessAlive
    /\ workers[w].pc = "item"
    /\ reply \in SessionReplies
    /\ workers' = [workers EXCEPT ![w] =
            IF stop_background_processing
            THEN [@ EXCEPT !.pc = "publish"]
            ELSE [@ EXCEPT
                    !.processed_decisions =
                        Append(@, Pair(WorkerBatch(w)[workers[w].j],
                                       classify_email_ai(db,
                                            Mail[WorkerBatch(w)[workers[w].j]],
                                            ai_available, reply))),
                    !.j = @ + 1,
                    !.pc = IF workers[w].j < Len(WorkerBatch(w))
                           THEN "item" ELSE "publish"]]
    /\ UNCHANGED <<coreVars, session_stats, processed_batches,
                   stop_background_processing, fg, mailbox, confirmed, notifierVars>>

\* if not self.stop_background_processing: (the test before the append)
WorkerPublish(w) ==
    /\ ProcessAlive
    /\ workers[w].pc = "publish"
    /\ workers' = [workers EXCEPT ![w] =
            IF ~stop_background_processing
            THEN [@ EXCEPT !.pc = "append"]
            ELSE [@ EXCEPT !.pc = "loop", !.current_index = @ + ProcessBatchSize,
                           !.processed_decisions = <<>>, !.j = 1]]
    /\ UNCHANGED <<coreVars, session_stats, processed_batches,
                   stop_background_processing, fg, mailbox, confirmed, notifierVars>>

\* self.processed_batches.append({...}); current_index += batch_size
WorkerAppend(w) ==
    /\ ProcessAlive
    /\ workers[w].pc = "append"
    /\ processed_batches' = Append(processed_batches,
            [batch_index |-> workers[w].current_index \div ProcessBatchSize,
             decisions |-> workers[w].processed_decisions,
             ready |-> TRUE])
    /\ workers' = [workers EXCEPT ![w] =
            [@ EXCEPT !.pc = "loop", !.current_index = @ + ProcessBatchSize,
                      !.processed_decisions = <<>>, !.j = 1]]
    /\ UNCHANGED <<coreVars, session_stats, stop_background_processing, fg,
                   mailbox, confirmed, notifierVars>>

Next ==
    \/ Fetch
    \/ \E replies \in UNION {[1..n -> SessionReplies] : n \in 0..ProcessBatchSize} :
            StartBatch(replies)
    \/ \E answer \in {"y", "n", "", "x"} : ConfirmBatch(answer)
    \/ \E key \in Keys : ManualKey(key)
    \/ ReturnBatch
    \/ Interrupt
    \/ JoinReturn
    \/ JoinTimeout
    \/ \E w \in 1..Len(workers) : WorkerLoop(w)
    \/ \E w \in 1..Len(workers), reply \in SessionReplies : WorkerItem(w, reply)
    \/ \E w \in 1..Len(workers) : WorkerPublish(w)
    \/ \E w \in 1..Len(workers) : WorkerAppend(w)

Spec == Init /\ [][Next]_vars

-----------------------------------------------------------------------------
(* The session over an inbox that takes two fetches, each of more than one  *)
(* chunk, without the external model.                                       *)

RefetchInbox == SubSeq(Stream, 1, IF RefetchInboxSize < Len(Stream)
                                  THEN RefetchInboxSize ELSE Len(Stream))

RefetchInit ==
    /\ InitCore
    /\ InitOptOut
    /\ ai_available = FALSE
    /\ session_stats = [processed |-> 0, trash |-> 0, revisit |-> 0,
                        action_needed |-> 0, auto_decided |-> 0]
    /\ processed_batches = <<>>
    /\ stop_background_processing = FALSE
    /\ mailbox = [e \in {RefetchInbox[i] : i \in 1..Len(RefetchInbox)} |-> {"INBOX"}]
    /\ fg = [pc |-> "fetch", all_emails |-> <<>>,
             processed_count |-> 0, batch_number |-> 1, batch |-> NoBatch]
    /\ workers = <<>>
    /\ confirmed = <<>>
    /\ tts = IdleTts
    /\ announcer = IdleAnnouncer

\* the operator accepts or rejects the batch-level confirmation, and accepts
\* the suggestion or quits in the manual review
RefetchAnswers == {"y", "n"}
RefetchKeys == {"enter", "q"}
\* the external model is not available: its answer is never read
RefetchReplies == {r \in SessionReplies : r.kind = "not_json"}

RefetchNext ==
    \/ Fetch
    \/ \E replies \in UNION {[1..n -> RefetchReplies] : n \in 0..ProcessBatchSize} :
            StartBatch(replies)
    \/ \E answer \in RefetchAnswers : ConfirmBatch(answer)
    \/ \E key \in RefetchKeys : ManualKey(key)
    \/ ReturnBatch
    \/ Interrupt
    \/ JoinReturn
    \/ JoinTimeout
    \/ \E w \in 1..Len(workers) : WorkerLoop(w)
    \/ \E w \in 1..Len(workers), reply \in RefetchReplies : WorkerItem(w, reply)
    \/ \E w \in 1..Len(workers) : WorkerPublish(w)
    \/ \E w \in 1..Len(workers) : WorkerAppend(w)

SpecRefetch == RefetchInit /\ [][RefetchNext]_vars

----------------------------------------------------------------------------
(* SpecWarm: the one-fetch session without the external model, started on  *)
(* the store two earlier confirmations left (item m7 deferred twice), so   *)
(* that a confirmation in chunk 1 takes preferences past the threshold    *)
(* while the worker classifies chunk 2.                                    *)

WarmDecision ==
    TriageDecision(Mail[7].id, "revisit", UserConfidence, "User decision", NoRule)

WarmDb ==
    learn_from_decision(learn_from_decision(EmptyDb, Mail[7], WarmDecision, TRUE),
                        Mail[7], WarmDecision, TRUE)

WarmInit ==
    /\ db = WarmDb
    /\ probe = NoProbe
    /\ reinforced = [k \in StoreKeys |-> 0]
    /\ lastReinforce = NoReinforce
    /\ InitOptOut
    /\ ai_available = FALSE
    /\ session_stats = [processed |-> 0, trash |-> 0, revisit |-> 0,
                        action_needed |-> 0, auto_decided |-> 0]
    /\ processed_batches = <<>>
    /\ stop_background_processing = FALSE
    /\ mailbox = [e \in {Inbox[i] : i \in 1..Len(Inbox)} |-> {"INBOX"}]
    /\ fg = [pc |-> "fetch", all_emails |-> <<>>,
             processed_count |-> 0, batch_number |-> 1, batch |-> NoBatch]
    /\ workers = <<>>
    /\ confirmed = <<>>
    /\ tts = IdleTts
    /\ announcer = IdleAnnouncer

\* the operator accepts a suggestion or defers the item
WarmKeys == {"enter", "5"}

WarmNext ==
    \/ Fetch
    \/ \E replies \in UNION {[1..n -> RefetchReplies] : n \in 0..ProcessBatchSize} :
            StartBatch(replies)
    \/ \E answer \in RefetchAnswers : ConfirmBatch(answer)
    \/ \E key \in WarmKeys : ManualKey(key)
    \/ ReturnBatch
    \/ Interrupt
    \/ JoinReturn
    \/ JoinTimeout
    \/ \E w \in 1..Len(workers) : WorkerLoop(w)
    \/ \E w \in 1..Len(workers), reply \in RefetchReplies : WorkerItem(w, reply)
    \/ \E w \in 1..Len(workers) : WorkerPublish(w)
    \/ \E w \in 1..Len(workers) : WorkerAppend(w)

SpecWarm == WarmInit /\ [][WarmNext]_vars

----------------------------------------------------------------------------
(* SpecLearnOnce: confirmed decisions are learned one after the other, for *)
(* items whose subjects have distinct words and for an item whose subject  *)
(* repeats one word.                                                       *)

LearnOnceEmails == {Mail[1], Mail[7], Mail[10]}

LearnOnceInit == InitCore /\ InitOptOut /\ InitSessionIdle /\ ai_available = FALSE

\* learn_from_decision(email, decision, True) for a decision of the operator
LearnOnceStep(email, action) ==
    /\ BagCardinality(db.decisions) < MaxLearn
    /\ db' = learn_from_decision(db, email,
                TriageDecision(email.id, action, UserConfidence, "User decision", NoRule),
                TRUE)
    /\ probe' = [called |-> TRUE, email |-> email, action |-> action]
    /\ UNCHANGED <<ai_available, reinforced, lastReinforce, optOutVars>>
    /\ UNCHANGED sessionVars

LearnOnceNext == \E e \in LearnOnceEmails, a \in TriageActions : LearnOnceStep(e, a)

SpecLearnOnce == LearnOnceInit /\ [][LearnOnceNext]_vars

\* one learning step adds at most 1 to the usage count and at most 0.1 to
\* the confidence of a row, and a row it creates starts at (0.6, 1)
C36_Step ==
    \A k \in DOMAIN db'.preferences :
        IF k \in DOMAIN db.preferences
        THEN /\ db'.preferences[k].usage_count <= db.preferences[k].usage_count + 1
             /\ db'.preferences[k].confidence <= db.preferences[k].confidence + 10
        ELSE /\ db'.preferences[k].usage_count = 1
             /\ db'.preferences[k].confidence = 60

\* C36: the learning step of one confirmed decision reinforces every
\* preference key at most once, whatever the subject and the sender
C36_OneReinforcementPerDecision == [][C36_Step]_vars

----------------------------------------------------------------------------
(* SpecApply: one batch of confirmed decisions is applied to the mailbox,  *)
(* the Gmail call failing for any of its items.                            *)

ApplyBatchLen == 3
AppliedActions == {"trash", "revisit", "action_needed", "opt_out", "spam",
                   "bulk_archive"}

\* the batches: the first ApplyBatchLen messages of the inbox, one confirmed
\* decision each
ApplyBatches ==
    {[i \in 1..ApplyBatchLen |->
        Pair(Stream[i], TriageDecision(Mail[Stream[i]].id, a[i], UserConfidence,
                                       "User decision", NoRule))] :
     a \in [1..ApplyBatchLen -> AppliedActions]}

ApplyInit ==
    /\ InitCore /\ InitOptOut /\ InitSessionIdle /\ ai_available = FALSE

\* the messages are fetched into the mailbox
ApplyFetch ==
    /\ mailbox = <<>>
    /\ mailbox' = [e \in {Stream[i] : i \in 1..ApplyBatchLen} |-> {"INBOX", "UNREAD"}]
    /\ UNCHANGED coreVars
    /\ UNCHANGED <<session_stats, processed_batches, stop_background_processing,
                   fg, workers, confirmed, tts, announcer>>

\* apply_triage_decisions(decisions), the Gmail call failing where fails[i]
ApplyStep(decisions, fails) ==
    /\ mailbox # <<>> /\ ~probe.called
    /\ mailbox' = apply_triage_decisions_try(mailbox, decisions, fails)
    /\ probe' = [called |-> TRUE, decisions |-> decisions, fails |-> fails,
                 before |-> mailbox]
    /\ UNCHANGED <<db, ai_available, reinforced, lastReinforce, opt_out_data, clock>>
    /\ UNCHANGED <<session_stats, processed_batches, stop_background_processing,
                   fg, workers, confirmed, tts, announcer>>

ApplyNext ==
    \/ ApplyFetch
    \/ \E decisions \in ApplyBatches, fails \in [1..ApplyBatchLen -> BOOLEAN] :
            ApplyStep(decisions, fails)

SpecApply == ApplyInit /\ [][ApplyNext]_vars

\* C25: after a batch is applied with some Gmail calls failing, every message
\* whose call did not fail has the labels its decision gives it, whether it
\* comes before or after a failing one, and a message whose call failed has
\* the labels it had
C25_ApplyFailureIsolated ==
    probe.called =>
        /\ \A i \in 1..Len(probe.decisions) :
              mailbox[probe.decisions[i].email] =
                 IF probe.fails[i] THEN probe.before[probe.decisions[i].email]
                 ELSE apply_action(probe.before[probe.decisions[i].email],
                                   probe.decisions[i].decision.action)
        /\ (\A i \in 1..Len(probe.decisions) : ~probe.fails[i]) =>
              mailbox = apply_triage_decisions(probe.before, probe.decisions)

\* the call of the 2nd item failed; the 1st and the 3rd are applied
C25_Witness ==
    /\ probe.called /\ probe.fails = <<FALSE, TRUE, FALSE>>
    /\ mailbox[probe.decisions[1].email] # probe.before[probe.decisions[1].email]
    /\ mailbox[probe.decisions[2].email] = probe.before[probe.decisions[2].email]
    /\ mailbox[probe.decisions[3].email] # probe.before[probe.decisions[3].email]

----------------------------------------------------------------------------
(* SpecStoreFault: process_batch over one batch of items that go to manual *)
(* review, sqlite3 raising on any read or write of the preference store.   *)
(* Nothing in get_matching_preferences, learn_from_decision, process_batch *)
(* or _run_standard_triage_session catches the error: it ends the session. *)

FaultBatchSize == 3
FaultKeys == {"enter", "9", "5", "1"}

\* the first FaultBatchSize messages the rules send to manual review
FaultBatch ==
    LET t(e) == ~is_auto(HeuristicOf[Mail[e].id])
        found == SelectSeq(Stream, t)
    IN  SubSeq(found, 1, IF FaultBatchSize < Len(found) THEN FaultBatchSize
                         ELSE Len(found))

FaultInit ==
    /\ InitCore /\ InitOptOut /\ ai_available = FALSE
    /\ session_stats = [processed |-> 0, trash |-> 0, revisit |-> 0,
                        action_needed |-> 0, auto_decided |-> 0]
    /\ processed_batches = <<>>
    /\ stop_background_processing = FALSE
    /\ fg = [pc |-> "classify", emails |-> FaultBatch, i |-> 1,
             manual_decisions |-> <<>>, results |-> <<>>,
             failure |-> "none", failed_at |-> 0]
    /\ workers = <<>>
    /\ mailbox = [e \in {FaultBatch[i] : i \in 1..Len(FaultBatch)} |-> {"INBOX"}]
    /\ tts = IdleTts
    /\ announcer = IdleAnnouncer
    /\ confirmed = <<>>

\* for email in emails: decision = classify_email_ai(email), which without
\* an API key is classify_email_rules: get_matching_preferences reads the
\* store, and an sqlite3 error leaves process_batch
FaultClassify(read_ok) ==
    /\ fg.pc = "classify"
    /\ fg' = IF ~read_ok
             THEN [fg EXCEPT !.pc = "raised", !.failure = "read", !.failed_at = fg.i]
             ELSE [fg EXCEPT
                     !.manual_decisions =
                         Append(@, Pair(fg.emails[fg.i],
                                        classify_email_rules(db, Mail[fg.emails[fg.i]]))),
                     !.i = IF fg.i = Len(fg.emails) THEN 1 ELSE fg.i + 1,
                     !.pc = IF fg.i = Len(fg.emails) THEN "review" ELSE "classify"]
    /\ UNCHANGED coreVars
    /\ UNCHANGED <<session_stats, processed_batches, stop_background_processing,
                   workers, mailbox, confirmed, tts, announcer>>

\* for email, decision in manual_decisions: get_user_decision, then
\* learn_from_decision, session_stats and results.append; an sqlite3 error
\* in learn_from_decision leaves process_batch before the append, and the
\* uncommitted rows are lost with the connection
FaultReview(key, write_ok) ==
    /\ fg.pc = "review"
    /\ LET p == fg.manual_decisions[fg.i]
           decision == key_outcome(Mail[p.email], p.decision, key, FALSE).decision
       IN  IF ~write_ok
           THEN /\ fg' = [fg EXCEPT !.pc = "raised", !.failure = "write",
                                    !.failed_at = fg.i]
                /\ UNCHANGED <<db, session_stats, confirmed, mailbox>>
           ELSE /\ db' = learn_from_decision(db, Mail[p.email], decision, TRUE)
                /\ confirmed' = Append(confirmed, Pair(p.email, decision))
                /\ LET results == Append(fg.results, Pair(p.email, decision))
                       last == fg.i = Len(fg.manual_decisions)
                   IN  /\ fg' = [fg EXCEPT !.results = results, !.i = @ + 1,
                                           !.pc = IF last THEN "returned" ELSE "review"]
                       /\ session_stats' =
                            [session_stats EXCEPT
                               ![decision.action] = @ + 1,
                               !.processed = IF last THEN Len(results) ELSE @]
                       /\ mailbox' = IF last
                                     THEN apply_triage_decisions(mailbox, results)
                                     ELSE mailbox
    /\ UNCHANGED <<ai_available, probe, reinforced, lastReinforce, optOutVars,
                   processed_batches, stop_background_processing, workers,
                   tts, announcer>>

FaultNext ==
    \/ \E read_ok \in BOOLEAN : FaultClassify(read_ok)
    \/ \E key \in FaultKeys, write_ok \in BOOLEAN : FaultReview(key, write_ok)

SpecStoreFault == FaultInit /\ [][FaultNext]_vars

\* C26: when a read of the store has failed for an item, the item has been
\* classified all the same, with the heuristic decision; when a write has
\* failed for an item, its confirmed decision is in the results; in both
\* cases the batch is not abandoned
C26_StoreFailureIsolated ==
    /\ fg.failure = "read" =>
          /\ Len(fg.manual_decisions) >= fg.failed_at
          /\ fg.manual_decisions[fg.failed_at].decision =
                 HeuristicOf[Mail[fg.emails[fg.failed_at]].id]
    /\ fg.failure = "write" =>
          /\ Len(fg.results) >= fg.failed_at
          /\ fg.results[fg.failed_at].email = fg.emails[fg.failed_at]
    /\ fg.pc # "raised"

\* C28: the decision log has one row for every confirmed decision, and the
\* rows of decisions confirmed in manual review (all of them here: the batch
\* has no auto-apply confirmation) have the auto flag false
C28_AutoFlagInLog ==
    /\ BagCardinality(db.decisions) = Len(confirmed)
    /\ \A i \in 1..Len(confirmed) :
          /\ BagIn(decision_row(Mail[confirmed[i].email], confirmed[i].decision),
                   db.decisions)
          /\ ~decision_row(Mail[confirmed[i].email], confirmed[i].decision).was_auto_decided

----------------------------------------------------------------------------
(* SpecOptOut: opt-out requests (key 0 of the manual review) of items of   *)
(* two domains, made as time passes.                                       *)

OptOutEmails == {Mail[1], Mail[2], Mail[3]}
MaxRequests == RepeatMinRequests + 1
MaxClock == (RepeatMinDays + 1) * TicksPerDay

OptOutInit == InitCore /\ InitOptOut /\ InitSessionIdle /\ ai_available = FALSE

RECURSIVE RequestCountOver(_, _)
RequestCountOver(data, S) ==
    IF S = {} THEN 0
    ELSE LET d == CHOOSE x \in S : TRUE
         IN  Len(data[d].requests) + RequestCountOver(data, S \ {d})

RequestCount(data) == RequestCountOver(data, DOMAIN data)

\* time passes
Tick ==
    /\ clock < MaxClock
    /\ clock' = clock + 1
    /\ UNCHANGED <<db, ai_available, probe, reinforced, lastReinforce, opt_out_data>>
    /\ UNCHANGED sessionVars

\* _handle_opt_out(email): the request is recorded and the decision made
OptOutStep(email) ==
    /\ RequestCount(opt_out_data) < MaxRequests
    /\ LET rec == record_opt_out_request(opt_out_data, email, clock)
       IN  /\ opt_out_data' = rec.data
           /\ probe' = [called |-> TRUE, email |-> email, info |-> rec.info,
                        before |-> opt_out_data, at |-> clock,
                        decision |-> handle_opt_out(email, rec.info.is_repeat_offender)]
    /\ UNCHANGED <<db, ai_available, reinforced, lastReinforce, clock>>
    /\ UNCHANGED sessionVars

OptOutNext ==
    \/ Tick
    \/ \E e \in OptOutEmails : OptOutStep(e)

SpecOptOut == OptOutInit /\ [][OptOutNext]_vars

\* the requests the domain of the last request had on record before it
PriorRequests ==
    IF DomainOf[probe.email.id] \in DOMAIN probe.before
    THEN probe.before[DomainOf[probe.email.id]].requests ELSE <<>>

\* the last request is at least the 2nd of its domain and comes at least
\* 7 days after the domain's first one
EscalationDue ==
    /\ Len(PriorRequests) + 1 >= 2
    /\ probe.at - PriorRequests[1] >= 7 * TicksPerDay

C27_WitnessEarly ==
    /\ probe.called /\ Len(PriorRequests) = 1
    /\ probe.at - PriorRequests[1] = 7 * TicksPerDay - 1
    /\ probe.decision.action = "opt_out"

----------------------------------------------------------------------------
(* SpecReview: the manual review of one item (get_user_decision and the    *)
(* body of the manual loop of the batch handlers) together with the staged *)
(* announcement of the item and the speech backend (TTSManager, pyttsx3    *)
(* provider).  The announcement shares no state with the pipeline, which   *)
(* is why Spec leaves it out.                                              *)

\* len(suggested_decision.reasoning) < 100
ReasoningLimit == 100

\* the items put under review: a promotion, an urgent mail, an empty mail
ReviewEmails == {1, 3, 4}

ReviewForeground(e) ==
    [pc |-> "start", email |-> e, suggested |-> classify_email_rules(EmptyDb, Mail[e]),
     key |-> "", after |-> "act", results |-> <<>>,
     interrupts |-> 0, int_at |-> 0, sent_at_key |-> <<0, 0, 0>>]

\* the opt-out file at the start of the review: none, or one request of
\* every domain made more than 7 days ago
SessionOptOuts ==
    {NoOptOuts,
     [d \in {DomainOf[id] : id \in DOMAIN DomainOf} |->
        [requests |-> <<0>>, is_repeat_offender |-> FALSE]]}

SessionClock == (RepeatMinDays + 1) * TicksPerDay

ReviewInit ==
    /\ InitCore
    /\ opt_out_data \in SessionOptOuts
    /\ clock = SessionClock
    /\ ai_available = FALSE
    /\ session_stats = [processed |-> 0, trash |-> 0, revisit |-> 0,
                        action_needed |-> 0, auto_decided |-> 0]
    /\ processed_batches = <<>>
    /\ stop_background_processing = FALSE
    /\ workers = <<>>
    /\ mailbox = <<>>
    /\ confirmed = <<>>
    /\ \E e \in ReviewEmails : fg = ReviewForeground(e)
    /\ tts = IdleTts
    /\ announcer = IdleAnnouncer

reviewFrame == <<ai_available, probe, reinforced, lastReinforce, clock, processed_batches,
                 stop_background_processing, workers, mailbox>>

\* _speak_email_details_staged run in the caller instead of in a thread
prompt_ready_after_speech(f, an) == f.pc = "read" /\ an.pc = "done"

\* the foreground stands at getch(): nothing of the announcement is waited for
prompt_ready(f, an) == f.pc = "read"

\* the step a key leads to: interrupt_current_speech, then the key's meaning
after_key(f, key) ==
    [f EXCEPT !.pc = "int_set", !.key = key, !.after = "act", !.interrupts = 0]

\* get_user_decision up to the prompt: the details are printed and the
\* staged_speech thread is started
ReviewStart ==
    /\ fg.pc = "start"
    /\ fg' = [fg EXCEPT !.pc = "read"]
    /\ announcer' = [pc |-> "speak_set", stage |-> 1]
    /\ UNCHANGED <<db, opt_out_data, session_stats, confirmed, tts, reviewFrame>>

\* choice = getch()
ReviewKey(key) ==
    /\ prompt_ready(fg, announcer)
    /\ fg' = after_key(fg, key)
    /\ UNCHANGED <<db, opt_out_data, session_stats, confirmed, tts, announcer, reviewFrame>>

\* interrupt_current_speech called by the foreground: self.interrupt_flag.set()
ReviewInterruptSet ==
    /\ fg.pc = "int_set"
    /\ tts' = [tts EXCEPT !.interrupt_flag = TRUE]
    /\ fg' = [fg EXCEPT !.pc = "int_join",
                        !.int_at = IF fg.interrupts = 0 /\ fg.int_at = 0
                                   THEN announcer.stage ELSE @]
    /\ UNCHANGED <<db, opt_out_data, session_stats, confirmed, announcer, reviewFrame>>

\* current_playback_thread.join(timeout=0.5): the thread has ended or the
\* time is up
ReviewInterruptJoin ==
    /\ fg.pc = "int_join"
    /\ fg' = [fg EXCEPT !.pc = "int_clear"]
    /\ UNCHANGED <<db, opt_out_data, session_stats, confirmed, tts, announcer, reviewFrame>>

\* self.interrupt_flag.clear(); self.is_playing.clear()
ReviewInterruptClear ==
    /\ fg.pc = "int_clear"
    /\ tts' = [tts EXCEPT !.interrupt_flag = FALSE]
    /\ fg' = [fg EXCEPT !.pc = fg.after, !.interrupts = @ + 1,
                        !.sent_at_key = tts.sent]
    /\ UNCHANGED <<db, opt_out_data, session_stats, confirmed, announcer, reviewFrame>>

\* the meaning of the key (the if-chain of get_user_decision) and, when a
\* decision is returned, the body of the manual loop: learn, count, append
ReviewAct ==
    /\ fg.pc = "act"
    /\ LET rec == record_opt_out_request(opt_out_data, Mail[fg.email], clock)
           out == key_outcome(Mail[fg.email], fg.suggested, fg.key,
                              rec.info.is_repeat_offender)
       IN  /\ opt_out_data' = IF fg.key = "0" THEN rec.data ELSE opt_out_data
           /\ CASE out.kind = "none" ->
                           /\ fg' = [fg EXCEPT !.pc = "read"]
                           /\ UNCHANGED <<db, session_stats, confirmed>>
                    [] out.kind = "exit" ->
                           /\ fg' = [fg EXCEPT !.pc = "int_set", !.after = "exited"]
                           /\ UNCHANGED <<db, session_stats, confirmed>>
                    [] out.kind = "decision" ->
                           /\ db' = learn_from_decision(db, Mail[fg.email], out.decision, TRUE)
                           /\ confirmed' = Append(confirmed, Pair(fg.email, out.decision))
                           /\ IF out.decision.action \in TriageActions
                              THEN /\ session_stats' =
                                           [session_stats EXCEPT ![out.decision.action] = @ + 1]
                                   /\ fg' = [fg EXCEPT
                                               !.pc = "returned",
                                               !.results = Append(@, Pair(fg.email, out.decision))]
                              ELSE /\ fg' = [fg EXCEPT !.pc = "raised"]
                                   /\ UNCHANGED session_stats
    /\ UNCHANGED <<tts, announcer, reviewFrame>>

AnnouncerRuns == fg.pc # "exited"

announcerFrame == <<db, opt_out_data, session_stats, confirmed, fg, reviewFrame>>

\* TTSManager.speak called by staged_speech: interrupt_current_speech first,
\* self.interrupt_flag.set()
AnnounceInterruptSet ==
    /\ AnnouncerRuns
    /\ announcer.pc = "speak_set"
    /\ tts' = [tts EXCEPT !.interrupt_flag = TRUE]
    /\ announcer' = [announcer EXCEPT !.pc = "speak_join"]
    /\ UNCHANGED announcerFrame

\* current_playback_thread.join(timeout=0.5)
AnnounceInterruptJoin ==
    /\ AnnouncerRuns
    /\ announcer.pc = "speak_join"
    /\ announcer' = [announcer EXCEPT !.pc = "speak_clear"]
    /\ UNCHANGED <<tts, announcerFrame>>

\* self.interrupt_flag.clear()
AnnounceInterruptClear ==
    /\ AnnouncerRuns
    /\ announcer.pc = "speak_clear"
    /\ tts' = [tts EXCEPT !.interrupt_flag = FALSE]
    /\ announcer' = [announcer EXCEPT !.pc = "dispatch"]
    /\ UNCHANGED announcerFrame

\* _speak_pyttsx3: the playback thread is started with the segment
AnnounceDispatch ==
    /\ AnnouncerRuns
    /\ announcer.pc = "dispatch"
    /\ tts' = [tts EXCEPT !.playback = "alive",
                          !.speaking = announcer.stage,
                          !.sent[announcer.stage] = @ + 1]
    /\ announcer' = [announcer EXCEPT !.pc = "wait"]
    /\ UNCHANGED announcerFrame

\* while current_playback_thread.is_alive(): if interrupt_flag.is_set():
\* engine.stop(); break
AnnouncePoll ==
    /\ AnnouncerRuns
    /\ announcer.pc = "wait"
    /\ \/ /\ tts.playback \in {"alive", "stopping"}
          /\ tts.interrupt_flag
          /\ tts' = [tts EXCEPT !.playback = "stopping", !.speaking = 0]
       \/ /\ tts.playback \notin {"alive", "stopping"}
          /\ UNCHANGED tts
    /\ announcer' = [announcer EXCEPT !.pc = "check"]
    /\ UNCHANGED announcerFrame

\* the playback thread ends: the segment was spoken to its end, or the
\* engine was stopped
PlaybackEnd ==
    /\ AnnouncerRuns
    /\ tts.playback \in {"alive", "stopping"}
    /\ tts' = [tts EXCEPT !.playback = "dead", !.speaking = 0]
    /\ UNCHANGED <<announcer, announcerFrame>>

\* staged_speech without the length test of stage 3
AnnounceCheck_any_length ==
    /\ AnnouncerRuns
    /\ announcer.pc = "check"
    /\ announcer' =
        IF announcer.stage = 3 \/ tts.interrupt_flag
        THEN [announcer EXCEPT !.pc = "done"]
        ELSE [pc |-> "speak_set", stage |-> announcer.stage + 1]
    /\ UNCHANGED <<tts, announcerFrame>>

\* after the pause: if interrupt_flag.is_set(): return; else the next stage
\* (the third only when the reasoning is short)
AnnounceCheck ==
    /\ AnnouncerRuns
    /\ announcer.pc = "check"
    /\ announcer' =
        IF announcer.stage = 3 \/ tts.interrupt_flag
        THEN [announcer EXCEPT !.pc = "done"]
        ELSE IF announcer.stage = 2 /\ Len(fg.suggested.reasoning) >= ReasoningLimit
        THEN [announcer EXCEPT !.pc = "done"]
        ELSE [pc |-> "speak_set", stage |-> announcer.stage + 1]
    /\ UNCHANGED <<tts, announcerFrame>>

ReviewNext ==
    \/ ReviewStart
    \/ \E key \in Keys : ReviewKey(key)
    \/ ReviewInterruptSet
    \/ ReviewInterruptJoin
    \/ ReviewInterruptClear
    \/ ReviewAct
    \/ AnnounceInterruptSet
    \/ AnnounceInterruptJoin
    \/ AnnounceInterruptClear
    \/ AnnounceDispatch
    \/ AnnouncePoll
    \/ PlaybackEnd
    \/ AnnounceCheck

SpecReview == ReviewInit /\ [][ReviewNext]_vars

----------------------------------------------------------------------------
(* SpecAnnounce: the review of one item whose suggestion comes from the     *)
(* external model with a rationale of 99 or of 100 characters, or from the *)
(* rules.                                                                  *)

Filler == "0123456789"
Filler50 == Filler \o Filler \o Filler \o Filler \o Filler
AnnouncedEmail == 3

\* rationale texts just below and at the limit of stage 3
AnnouncedReasonings ==
    {SubSeq(Filler50 \o Filler50, 1, ReasoningLimit - 1),
     SubSeq(Filler50 \o Filler50, 1, ReasoningLimit)}

AnnouncedSuggestions ==
    {classify_email_rules(EmptyDb, Mail[AnnouncedEmail])}
    \cup {TriageDecision(Mail[AnnouncedEmail].id, "revisit", ImportantConfidence, r, NoRule) :
             r \in AnnouncedReasonings}

AnnounceInit ==
    /\ InitCore /\ InitOptOut
    /\ ai_available = TRUE
    /\ session_stats = [processed |-> 0, trash |-> 0, revisit |-> 0,
                        action_needed |-> 0, auto_decided |-> 0]
    /\ processed_batches = <<>>
    /\ stop_background_processing = FALSE
    /\ workers = <<>>
    /\ mailbox = <<>>
    /\ confirmed = <<>>
    /\ \E sd \in AnnouncedSuggestions :
          fg = [ReviewForeground(AnnouncedEmail) EXCEPT !.suggested = sd]
    /\ tts = IdleTts
    /\ announcer = IdleAnnouncer

SpecAnnounce == AnnounceInit /\ [][ReviewNext]_vars

\* C32: a segment is sent to the speech backend at most once, the detail only
\* after the headline and the rationale only after the detail, and the
\* rationale only when the rationale text has fewer than 100 characters
C32_SegmentsInOrder ==
    /\ \A i \in 1..3 : tts.sent[i] <= 1
    /\ tts.sent[2] = 1 => tts.sent[1] = 1
    /\ tts.sent[3] = 1 => tts.sent[2] = 1
    /\ tts.sent[3] = 1 => Len(fg.suggested.reasoning) < 100
    /\ tts.speaking # 0 => tts.sent[tts.speaking] = 1
                           /\ \A i \in 1..3 : i > tts.speaking => tts.sent[i] = 0

\* the rationale of 99 characters is being spoken
C32_Witness ==
    /\ tts.sent = <<1, 1, 1>> /\ tts.speaking = 3
    /\ Len(fg.suggested.reasoning) = 99

\* the announcement of a 100-character rationale ended after the detail
C32_WitnessLong ==
    /\ tts.sent = <<1, 1, 0>> /\ announcer.pc = "done" /\ fg.interrupts = 0
    /\ fg.pc = "read" /\ Len(fg.suggested.reasoning) = 100

----------------------------------------------------------------------------
(* Claims about the reinforcement rule (SpecStore).                        *)

\* C2: reinforcing a key that has a row sets its confidence to
\* min(1.0, old + 0.1) and its usage count to old + 1; reinforcing a key
\* that has none inserts (0.6, 1); no other row changes and the key stays
\* unique (the store is a function of the key).
C2_ReinforceRule ==
    lastReinforce.done =>
        LET k == lastReinforce.key
            before == lastReinforce.before
            after == db.preferences
            capped == IF before[k].confidence + 10 > 100 THEN 100
                      ELSE before[k].confidence + 10
        IN  /\ DOMAIN after = DOMAIN before \cup {k}
            /\ \A j \in DOMAIN before \ {k} : after[j] = before[j]
            /\ k \in DOMAIN before =>
                    /\ after[k].confidence = capped
                    /\ after[k].usage_count = before[k].usage_count + 1
            /\ k \notin DOMAIN before =>
                    after[k] = [confidence |-> 60, usage_count |-> 1]

\* C3 as claimed: from a store with no row for a key, two reinforcements of
\* that key leave usage_count = 2 and confidence = 0.8.
C3_TwiceFromAbsent ==
    \A k \in StoreKeys :
        reinforced[k] = 2 =>
            /\ k \in DOMAIN db.preferences
            /\ db.preferences[k] = [confidence |-> 80, usage_count |-> 2]

\* C3 as amended: the first reinforcement inserts (0.6, 1) and the second adds
\* 0.1 once, so two reinforcements leave usage_count = 2 and confidence = 0.7.
C3_TwiceFromAbsentAmended ==
    \A k \in StoreKeys :
        reinforced[k] = 2 =>
            /\ k \in DOMAIN db.preferences
            /\ db.preferences[k] = [confidence |-> 70, usage_count |-> 2]

C3_Witness ==
    \E k \in StoreKeys :
        reinforced[k] = 2 /\ lastReinforce.done /\ lastReinforce.key = k

----------------------------------------------------------------------------
(* Claims about the classifier (SpecClassify).                             *)

\* the external-model tier failed: library or key absent, the call raised,
\* the reply is not JSON, or it lacks action, confidence or reasoning
AiFailed(available, reply) ==
    \/ ~available
    \/ reply.kind # "json"
    \/ "action" \notin DOMAIN reply.result
    \/ "confidence" \notin DOMAIN reply.result
    \/ "reasoning" \notin DOMAIN reply.result

\* the keys of the store that match an item: its sender, its domain, or a
\* word of its case-folded subject
MatchingKeys(d, email) ==
    {k \in DOMAIN d.preferences :
        \/ k[1] = "sender" /\ k[2] = email.sender
        \/ k[1] = "domain" /\ k[2] = email.sender_domain
        \/ /\ k[1] = "subject_keyword"
           /\ \E i \in 1..Len(MatchWordsOf[email.id]) : MatchWordsOf[email.id][i] = k[2]}

MaxMatchingKeys(d, email) ==
    {k \in MatchingKeys(d, email) :
        \A j \in MatchingKeys(d, email) :
            d.preferences[j].confidence <= d.preferences[k].confidence}

SenderPreferenceOver(d, email) ==
    \E k \in DOMAIN d.preferences :
        /\ k[1] = "sender" /\ k[2] = email.sender
        /\ d.preferences[k].confidence > 70

\* C4: every decision the classifier returns has its confidence in [0, 1].
C4_ConfidenceInRange ==
    probe.called => probe.decision.confidence \in 0..100

\* C5 as claimed: with a preference over 0.7 matching the item by sender,
\* classify returns the action of a maximum-confidence matching preference,
\* whether or not an external model is configured.
C5_LearnedPrecedence ==
    (probe.called /\ SenderPreferenceOver(db, probe.email)) =>
        probe.decision.action \in {k[3] : k \in MaxMatchingKeys(db, probe.email)}

\* The rule path alone honours the precedence: the same statement for the
\* calls in which no external model is configured or its call fails.
C5_LearnedPrecedenceRulePath ==
    (/\ probe.called
     /\ SenderPreferenceOver(db, probe.email)
     /\ AiFailed(ai_available, probe.reply)) =>
        probe.decision.action \in {k[3] : k \in MaxMatchingKeys(db, probe.email)}

C5_Witness ==
    /\ probe.called
    /\ SenderPreferenceOver(db, probe.email)
    /\ AiFailed(ai_available, probe.reply)
    /\ probe.decision.action # HeuristicOf[probe.email.id].action

\* C6: when the external-model tier fails, classify returns exactly the
\* decision of the rule path for the same item and store.
C6_AiFailureFallsBack ==
    (probe.called /\ AiFailed(ai_available, probe.reply)) =>
        probe.decision = classify_email_rules(db, probe.email)

C6_Witness ==
    /\ probe.called /\ ai_available
    /\ probe.reply.kind = "json"
    /\ "action" \in DOMAIN probe.reply.result
    /\ "confidence" \notin DOMAIN probe.reply.result
    /\ db.preferences # <<>>

\* what the claim says the heuristic tier decides, for every item
ClaimedHeuristic ==
    [id \in {Mail[i].id : i \in 1..Len(Mail)} |->
        LET e == CHOOSE x \in Emails : x.id = id
            text == Lower(e.subject) \o " " \o Lower(e.snippet)
            important == \E i \in 1..Len(important_keywords) :
                            Contains(text, important_keywords[i])
            score == Cardinality({i \in 1..Len(marketing_keywords) :
                                    Contains(text, marketing_keywords[i])})
        IN  IF important THEN <<"action_needed", 80>>
            ELSE IF e.has_unsubscribe \/ score >= 2 THEN <<"trash", 70 + 10 * score>>
            ELSE <<"revisit", 50>>]

NoPreferenceOver(d, email) ==
    \A k \in MatchingKeys(d, email) : d.preferences[k].confidence <= 70

\* C7: when no matching preference exceeds 0.7 the rule path returns the
\* heuristic decision: act-now 0.8 on an important keyword (before any
\* marketing signal), else discard 0.7 + 0.1 x score for an unsubscribe item
\* or a score >= 2, else defer 0.5 (also for an empty subject and snippet).
C7_HeuristicTier ==
    (/\ probe.called
     /\ AiFailed(ai_available, probe.reply)
     /\ NoPreferenceOver(db, probe.email)) =>
        /\ <<probe.decision.action, probe.decision.confidence>>
                = ClaimedHeuristic[probe.email.id]
        /\ (probe.email.subject = "" /\ probe.email.snippet = "") =>
                <<probe.decision.action, probe.decision.confidence>> = <<"revisit", 50>>
        /\ (probe.email.has_unsubscribe /\ probe.decision.action # "action_needed") =>
                probe.decision.action = "trash" /\ probe.decision.confidence >= 70

\* an item with an important keyword, marketing keywords and the unsubscribe
\* capability, classified with a matching preference that is not over 0.7
C7_Witness ==
    /\ probe.called
    /\ AiFailed(ai_available, probe.reply)
    /\ NoPreferenceOver(db, probe.email)
    /\ MatchingKeys(db, probe.email) # {}
    /\ probe.email.id = "m7"
    /\ probe.decision.action = "action_needed"

\* C35: on the rule path the suggested action is one of the three
\* dispositions trash, revisit, action_needed, whatever decisions were
\* confirmed and learned before
C35_RulePathSuggestsDisposition ==
    (probe.called /\ AiFailed(ai_available, probe.reply)) =>
        probe.decision.action \in TriageActions

C30_WitnessThird ==
    /\ probe.called /\ AiFailed(ai_available, probe.reply)
    /\ \E k \in MatchingKeys(db, probe.email) :
          /\ db.preferences[k].usage_count = 3
          /\ k[3] # HeuristicOf[probe.email.id].action
          /\ probe.decision.action = k[3]

----------------------------------------------------------------------------
(* Claims about the batch pipeline (Spec).                                 *)

RECURSIVE replay(_, _)
\* the store after the learning step of each of the decisions, in order
replay(d, pairs) ==
    IF pairs = <<>> THEN d
    ELSE replay(learn_from_decision(d, Mail[Head(pairs).email], Head(pairs).decision, TRUE),
                Tail(pairs))

\* C1: every row of the preference store and of the decision log was written
\* by the learning step of a decision the user confirmed: the decision log is
\* contained in the rows of the confirmed decisions, and no preference has
\* been reinforced more often than the confirmed decisions reinforce it.
C1_WritesOnlyOnConfirmation ==
    LET full == replay(EmptyDb, confirmed)
    IN  /\ db.decisions \sqsubseteq full.decisions
        /\ \A k \in DOMAIN db.preferences :
              /\ k \in DOMAIN full.preferences
              /\ db.preferences[k].usage_count <= full.preferences[k].usage_count
              /\ db.preferences[k].confidence <= full.preferences[k].confidence

\* a batch was confirmed, a manual decision was confirmed, and both are stored
C1_Witness ==
    /\ Len(confirmed) >= 2
    /\ BagCardinality(db.decisions) >= 2
    /\ db.preferences # <<>>
    /\ \E i \in 1..Len(confirmed) : confirmed[i].decision.reasoning = "User decision"

\* C8: in both batch handlers an item is in the auto-decision list iff its
\* classification confidence is at least the threshold (0.85), and in the
\* manual list otherwise, each list in the order of the chunk.
C8_Partition ==
    fg.batch.handler # "none" =>
        LET a(p) == p.decision.confidence >= auto_decide_threshold
            m(p) == p.decision.confidence < auto_decide_threshold
        IN  /\ fg.batch.auto_decisions = SelectSeq(fg.batch.classified, a)
            /\ fg.batch.manual_decisions =
                    SelectSeq(fg.batch.classified, m) \o fg.batch.rejected

\* a chunk with an item exactly at the threshold on the auto side and an
\* item below it on the manual side
C8_Witness ==
    /\ fg.batch.handler = "inline"
    /\ fg.pc = "confirm"
    /\ fg.batch.manual_decisions # <<>>
    /\ \E i \in 1..Len(fg.batch.auto_decisions) :
            fg.batch.auto_decisions[i].decision.confidence = auto_decide_threshold

C9_State ==
    fg.batch.rejected # <<>> =>
        LET m(p) == p.decision.confidence < auto_decide_threshold
        IN  /\ fg.batch.rejected = fg.batch.auto_decisions
            /\ fg.batch.manual_decisions =
                    SelectSeq(fg.batch.classified, m) \o fg.batch.auto_decisions
            /\ Len(fg.batch.results) = fg.batch.mi - 1
            /\ \A i \in 1..Len(fg.batch.results) :
                    fg.batch.results[i].email = fg.batch.manual_decisions[i].email

C9_Step ==
    (fg.pc = "confirm" /\ fg'.batch.rejected # <<>>) =>
        /\ db' = db
        /\ session_stats' = session_stats
        /\ mailbox' = mailbox
        /\ fg'.batch.results = <<>>
        /\ fg'.batch.manual_decisions =
                fg.batch.manual_decisions \o fg.batch.auto_decisions
        /\ fg'.pc = "manual"

\* C9: on a batch-level "no", in both handlers, every auto-decided item is
\* appended unmodified to the manual review list and none is dropped; the
\* answer itself learns nothing, counts nothing and returns nothing, and an
\* item is in the results only once the manual loop has passed it.
C9_RejectedBatchGoesToManual == []C9_State /\ [][C9_Step]_vars

\* the manual loop has confirmed an item and now stands at a rejected
\* auto-decision
C9_Witness ==
    /\ fg.batch.rejected # <<>>
    /\ fg.pc = "manual"
    /\ fg.batch.results # <<>>
    /\ fg.batch.mi > Len(fg.batch.manual_decisions) - Len(fg.batch.rejected)
    /\ fg.batch.mi <= Len(fg.batch.manual_decisions)

\* C10: after a batch-level "yes", in both handlers, every auto-decided item
\* has its row in the decision log and its preferences in the store, and is
\* counted in its action counter and in auto_decided.
C10_ConfirmedBatchLearnedAndCounted ==
    (/\ fg.pc = "manual"
     /\ fg.batch.auto_decisions # <<>>
     /\ fg.batch.rejected = <<>>) =>
        /\ \A i \in 1..Len(fg.batch.auto_decisions) :
              LET p == fg.batch.auto_decisions[i]
                  pats == PatternsOf[Mail[p.email].id]
              IN  /\ BagIn(decision_row(Mail[p.email], p.decision), db.decisions)
                  /\ \A j \in 1..Len(pats) :
                        Key(pats[j][1], pats[j][2], p.decision.action)
                            \in DOMAIN db.preferences
        /\ session_stats.auto_decided >= Len(fg.batch.auto_decisions)

----------------------------------------------------------------------------
(* Claims about manual review and the announcement (SpecReview).           *)

\* C11: in manual review, enter commits the suggested decision unchanged;
\* space commits nothing and the prompt stays open; and every decision that
\* get_user_decision returns, accepted or overridden, is learned with
\* user_confirmed = TRUE exactly once (one row in the log, its patterns
\* reinforced once).
C11_ManualReview ==
    /\ (fg.key = "enter" /\ fg.pc = "returned") =>
            /\ fg.results = <<Pair(fg.email, fg.suggested)>>
            /\ confirmed = <<Pair(fg.email, fg.suggested)>>
    /\ fg.key = "space" =>
            /\ fg.pc \in {"int_set", "int_join", "int_clear", "act", "read"}
            /\ fg.results = <<>>
            /\ confirmed = <<>>
            /\ db = EmptyDb
    /\ fg.pc \in {"start", "read", "int_set", "int_join", "int_clear", "act", "exited"} =>
            db = EmptyDb /\ confirmed = <<>>
    /\ fg.pc = "returned" =>
            /\ Len(confirmed) = 1
            /\ fg.results = confirmed
            /\ BagCardinality(db.decisions) = 1
            /\ db = learn_from_decision(EmptyDb, Mail[fg.email],
                                        confirmed[1].decision, TRUE)

\* the suggestion was accepted with enter and is committed as it was suggested
C11_Witness ==
    /\ fg.pc = "returned"
    /\ fg.key = "enter"
    /\ fg.results[1].decision.confidence < UserConfidence
    /\ BagCardinality(db.decisions) = 1

\* C14: when the interrupt of the first key falls in the first or the second
\* segment of the announcement, no later segment is sent to the speech
\* backend (the send count of the third segment stays 0)
C14_InterruptStopsLaterSegments ==
    /\ fg.int_at = 1 => tts.sent[2] = 0 /\ tts.sent[3] = 0
    /\ fg.int_at = 2 => tts.sent[3] = 0

\* C15: the meaning of a key takes effect only after the interrupt has been
\* called for it, and from the return of that interrupt on no segment of the
\* announcement is sent to the backend
C15_KeyInterruptsAnnouncement ==
    /\ fg.pc \in {"act", "returned", "raised"} => fg.interrupts >= 1
    /\ fg.pc = "exited" => fg.interrupts >= 2
    /\ fg.interrupts >= 1 => tts.sent = fg.sent_at_key

\* C16: the foreground reaches the key read whatever the announcement is
\* doing, and at the key read a key is accepted in every state of the
\* announcement: before a segment has started, while one is spoken, between
\* two segments
C16_AnnouncementNeverBlocks ==
    /\ fg.pc = "start" => announcer.pc = "idle" /\ ENABLED ReviewStart
    /\ fg.pc = "read" => \A key \in Keys : ENABLED ReviewKey(key)

\* the first key is accepted while the third segment is being spoken
C16_Witness ==
    /\ fg.pc = "int_set" /\ fg.int_at = 0
    /\ tts.speaking = 3 /\ announcer = [pc |-> "wait", stage |-> 3]

\* C23: once the interrupt key pressed in manual review has been handled, the
\* stop flag of the background work is set and the review prompt is not shown
\* again (control is on its way back to the caller)
C23_InterruptInReviewCancels ==
    (fg.key = CtrlC /\ fg.pc \notin {"int_set", "int_join", "int_clear", "act"})
        => stop_background_processing /\ fg.pc # "read"

\* C24: while and after a key outside the menu is handled, the preference
\* store, the decision log, the session statistics and the opt-out records are
\* as they were, no decision has been returned, and the foreground comes back
\* to the prompt of the same item with the same suggestion
C24_UnrecognizedKeyNoEffect ==
    fg.key \in Keys \ MenuKeys =>
        /\ db = EmptyDb
        /\ opt_out_data \in SessionOptOuts
        /\ session_stats = [processed |-> 0, trash |-> 0, revisit |-> 0,
                            action_needed |-> 0, auto_decided |-> 0]
        /\ confirmed = <<>> /\ fg.results = <<>>
        /\ fg.pc \in {"int_set", "int_join", "int_clear", "act", "read"}
        /\ fg.suggested = classify_email_rules(EmptyDb, Mail[fg.email])

\* the prompt is shown again after a key outside the menu
C24_Witness ==
    /\ fg.key \in Keys \ MenuKeys /\ fg.pc = "read" /\ fg.interrupts = 1

\* one step keeps every preference row, with a usage count and a confidence
\* at least what they were
C29_Step ==
    \A k \in DOMAIN db.preferences :
        /\ k \in DOMAIN db'.preferences
        /\ db'.preferences[k].usage_count >= db.preferences[k].usage_count
        /\ db'.preferences[k].confidence >= db.preferences[k].confidence

\* C29: no step of a session (classification in the foreground or in the
\* background, batch-level confirmation or refusal, manual review, quit,
\* interrupt) deletes a preference row or lowers its usage count or confidence
C29_StoreMonotone == [][C29_Step]_vars

\* a row confirmed a second time, next to a row of the same pattern with
\* another action
C29_Witness ==
    \E k \in DOMAIN db.preferences, j \in DOMAIN db.preferences :
        /\ db.preferences[k].usage_count >= 2
        /\ db.preferences[k].confidence = InitialConfidence + ConfidenceStep
        /\ j[1] = k[1] /\ j[2] = k[2] /\ j[3] # k[3]

\* a step of a background worker: a worker moved and the foreground did not
WorkerStepTaken ==
    /\ fg' = fg /\ Len(workers') = Len(workers) /\ workers' # workers

\* a worker step leaves the store, the decision log, the opt-out records and
\* the statistics alone and keeps the ready-list as a prefix of the new one;
\* the store changes only in the foreground's confirmation steps
C31_Step ==
    /\ WorkerStepTaken =>
          /\ db' = db /\ session_stats' = session_stats
          /\ opt_out_data' = opt_out_data
          /\ Len(processed_batches') \in {Len(processed_batches),
                                          Len(processed_batches) + 1}
          /\ SubSeq(processed_batches', 1, Len(processed_batches)) = processed_batches
    /\ db' # db => fg.pc \in {"confirm", "manual"} /\ workers' = workers

\* C31: the background worker only appends to the ready-list and never writes
\* the preference store, the decision log or the statistics; every store
\* write is made by the foreground's learning step
C31_WorkerOnlyAppends == [][C31_Step]_vars

\* the worker has published a chunk after the foreground learned a decision
C31_Witness ==
    /\ processed_batches # <<>> /\ db # EmptyDb
    /\ \E w \in 1..Len(workers) : workers[w].pc = "loop" /\ workers[w].current_index > ProcessBatchSize
    /\ processed_batches[Len(processed_batches)].decisions # <<>>

\* between two chunks and after the last one the statistics agree with the
\* decisions confirmed so far, and a batch-level auto-apply confirmation of n
\* decisions adds n to auto_decided
C34_Step ==
    /\ (fg'.pc \in {"batch", "join"} /\ fg'.batch = NoBatch) =>
          /\ session_stats'.processed = Len(confirmed')
          /\ Len(confirmed') = session_stats'.trash + session_stats'.revisit
                                  + session_stats'.action_needed
    /\ (/\ fg.pc = "confirm" /\ fg.batch.auto_decisions # <<>>
        /\ confirmed' = confirmed \o fg.batch.auto_decisions) =>
          session_stats'.auto_decided =
              session_stats.auto_decided + Len(fg.batch.auto_decisions)
    /\ ~(fg.pc = "confirm" /\ confirmed' # confirmed) =>
          session_stats'.auto_decided = session_stats.auto_decided

\* C34: after every handled chunk, classified inline or pre-classified,
\* 'processed' is the number of decisions confirmed in the session, which is
\* the sum of the per-action counters, and 'auto_decided' counts exactly the
\* decisions confirmed through the batch-level auto-apply confirmation
C34_StatsConsistent == [][C34_Step]_vars

-----------------------------------------------------------------------------
(* Claims about the fate of confirmed decisions (Spec).                    *)

InResults(p) == \E j \in 1..Len(fg.batch.results) : fg.batch.results[j] = p

\* C12: a decision synthesized by a special manual action (data-erasure,
\* mark-spam, bulk-discard) that has been learned is in the results of its
\* chunk, or has been applied to its message (which then has left the inbox)
C12_SpecialActionReachesResults ==
    \A i \in 1..Len(confirmed) :
        confirmed[i].decision.action \in OperationalActions =>
            \/ InResults(confirmed[i])
            \/ "INBOX" \notin mailbox[confirmed[i].email]

Applied(p) == mailbox[p.email] = apply_action({"INBOX"}, p.decision.action)

\* C13: when the session has ended, every disposition that was confirmed and
\* learned has been applied to its message, and no message was confirmed twice
C13_LearnedIsApplied ==
    /\ fg.pc \in {"finished", "returned", "exited"} =>
            \A i \in 1..Len(confirmed) :
                confirmed[i].decision.action \in TriageActions => Applied(confirmed[i])
    /\ \A i, j \in 1..Len(confirmed) :
            confirmed[i].email = confirmed[j].email => i = j

\* C17: a chunk after the first that starts while the ready-list holds an
\* entry for it with decisions is handled by the pre-classified handler with
\* the decisions of such an entry: the foreground classifies none of its items
C17_Step ==
    (/\ fg.pc = "batch" /\ fg'.pc \in {"confirm", "manual"}
     /\ fg.batch_number # 1
     /\ \E i \in 1..Len(processed_batches) :
            /\ processed_batches[i].batch_index = fg.batch_number - 1
            /\ processed_batches[i].decisions # <<>>)
    => /\ fg'.batch.handler = "pre"
       /\ \E i \in 1..Len(processed_batches) :
            /\ processed_batches[i].batch_index = fg.batch_number - 1
            /\ fg'.batch.classified = processed_batches[i].decisions

C17_PublishedChunkNotReclassified == [][C17_Step]_vars

-----------------------------------------------------------------------------
(* Claims about the chunks and the background worker over two fetches       *)
(* (SpecRefetch).                                                           *)

EmailsOf(pairs) == [i \in 1..Len(pairs) |-> pairs[i].email]

\* C18: the chunk the foreground handles as number k is the k-th slice of the
\* current fetch, and the decisions it works with, classified inline or taken
\* from the ready-list, are decisions for exactly the items of that slice
C18_ChunksInFetchOrder ==
    fg.batch.handler # "none" =>
        /\ fg.batch.current_batch =
                Slice(fg.all_emails, (fg.batch_number - 1) * ProcessBatchSize,
                      fg.batch_number * ProcessBatchSize)
        /\ EmailsOf(fg.batch.classified) = fg.batch.current_batch

\* C33: every entry of the ready-list holds one decision for every item of
\* the chunk of the current fetch that its index names, in item order (no
\* entry is cut short, and none is about other items)
C33_ReadyEntriesComplete ==
    \A i \in 1..Len(processed_batches) :
        EmailsOf(processed_batches[i].decisions) =
            Slice(fg.all_emails,
                  processed_batches[i].batch_index * ProcessBatchSize,
                  (processed_batches[i].batch_index + 1) * ProcessBatchSize)

\* C19: at most one background worker is alive
C19_OneWorkerAlive ==
    Cardinality({w \in 1..Len(workers) : workers[w].pc # "done"}) <= 1

\* C20: a worker that starts to classify a chunk or appends a chunk to the
\* ready-list is the worker of the current fetch: no worker of an earlier
\* fetch, for which the stop flag was set before the next fetch began, does
C20_Step ==
    \A w \in 1..Len(workers) :
        (\/ workers[w].pc = "loop" /\ workers'[w].pc = "item"
         \/ workers[w].pc = "append" /\ workers'[w].pc = "loop")
        => w = Len(workers)

C20_StoppedWorkerStaysStopped == [][C20_Step]_vars

-----------------------------------------------------------------------------
(* Claims about the completion of a fetch, quitting and cancellation.      *)

ChunksOf(n) == (n + ProcessBatchSize - 1) \div ProcessBatchSize

\* C21: a chunk that starts with no entry for it in the ready-list is
\* classified inline, item by item; and when the chunk loop of a fetch has
\* ended, ceil(n/s) chunks have been handled and every item of the fetch has
\* been decided and its decision applied (no item is still untouched)
C21_FetchCompletes ==
    /\ fg.batch.handler = "inline" =>
            EmailsOf(fg.batch.classified) = fg.batch.current_batch
    /\ fg.pc = "join" =>
            /\ fg.batch_number - 1 = ChunksOf(Len(fg.all_emails))
            /\ fg.processed_count = Len(fg.all_emails)
            /\ \A i \in 1..Len(fg.all_emails) : mailbox[fg.all_emails[i]] # {"INBOX"}

\* C22: when the process has terminated on the operator's quit, the stop flag
\* of the background work has been set
C22_QuitStopsBackground ==
    fg.pc = "exited" => stop_background_processing

-----------------------------------------------------------------------------
(* Claims about pre-classification on a store that changes (SpecWarm).     *)

\* the foreground starts a chunk with decisions taken from the ready-list
PreChunkPresented ==
    fg.pc = "batch" /\ fg'.pc \in {"confirm", "manual"} /\ fg'.batch.handler = "pre"

\* what inline classification makes of the chunk on the store of this moment
InlineNow(chunk) ==
    [i \in 1..Len(chunk) |-> Pair(chunk[i], classify_email_rules(db, Mail[chunk[i]]))]

C37_Step == PreChunkPresented => fg'.batch.classified = InlineNow(fg'.batch.current_batch)

\* C37: the decisions the foreground takes from the ready-list for a chunk
\* are the decisions inline classification would make for that chunk at the
\* moment the chunk is presented
C37_PreclassifiedEqualsInline == [][C37_Step]_vars

\* a decision a worker can have made for the item on an earlier store: the
\* heuristic one, or a learned one of a matching key at a confidence the
\* key has reached
OlderSuggestion(decision, email) ==
    \/ decision = HeuristicOf[email.id]
    \/ \E k \in MatchingKeys(db, email) :
          /\ decision.action = k[3]
          /\ decision.confidence > LearnedThreshold
          /\ decision.confidence <= db.preferences[k].confidence

C37_StepAmended ==
    PreChunkPresented =>
        /\ EmailsOf(fg'.batch.classified) = fg'.batch.current_batch
        /\ \A i \in 1..Len(fg'.batch.classified) :
              LET e == Mail[fg'.batch.classified[i].email]
                  d == fg'.batch.classified[i].decision
              IN  /\ NoPreferenceOver(db, e) => d = classify_email_rules(db, e)
                  /\ d = classify_email_rules(db, e) \/ OlderSuggestion(d, e)

\* C37 amended: the decisions taken from the ready-list equal the inline
\* ones of the moment the chunk is presented whenever no matching preference
\* of the item exceeds 0.7 at that moment; otherwise they are the inline
\* ones or the suggestion the worker made on the store it saw, which later
\* confirmations of earlier chunks do not refresh
C37_PreclassifiedEqualsInlineAmended == [][C37_StepAmended]_vars

\* a pre-classified chunk is under review after chunk 1 was confirmed, with
\* the suggestion the worker made before the confirmations: deferring chunk 1
\* took the domain preference past 0.7, the chunk still says trash
C37_Witness ==
    /\ fg.batch.handler = "pre" /\ fg.batch.results = <<>>
    /\ Len(confirmed) = ProcessBatchSize
    /\ fg.batch.classified[1].decision = HeuristicOf[Mail[fg.batch.classified[1].email].id]
    /\ classify_email_rules(db, Mail[fg.batch.classified[1].email]).action = "revisit"
    /\ fg.batch.classified[1].decision.action = "trash"

====
